---- MODULE Spec2Model ----
(***************************************************************************)
(* A model of the TOML reader of BurntSushi/toml.                          *)
(*                                                                         *)
(*   - the parser (src/unnamed/part_008): the table tree, the header       *)
(*     context, the implicit-table bookkeeping, the ordered key list and   *)
(*     the type map, driven one top-level item at a time by topLevel;      *)
(*   - the lexer (src/lex.go): the state functions, the item channel and   *)
(*     the nextItem loop.                                                  *)
(*                                                                         *)
(* A document is a sequence of top-level items.  Scalars (integers,        *)
(* strings, plain arrays, ...) are opaque to the structural rules of the   *)
(* parser: a scalar is modelled by the place of its occurrence,            *)
(* <<line, entry>>, so two occurrences never carry the same value.         *)
(***************************************************************************)
EXTENDS Integers, Sequences, FiniteSets, TLC

VARIABLES
    p,          \* the parser (type parser, part_008:12-31) and its panic
    result,     \* what parse has returned: "parsing", "ok", "error", "crash"
    doc,        \* the top-level items consumed so far (the input read)
    hist,       \* history of the positions of the tree the items defined
    lx,         \* the lexer (type lexer, lex.go:43-52) and its fault
    received,   \* the items nextItem has returned to the puller
    trip,       \* the round trip of FuzzToml: encoding, decoding, encoding again
    floats,     \* float literals through Decode, Encode and Decode
    call        \* a function of the package applied to an input

----------------------------------------------------------------------------
(* Bounds and input alphabets                                              *)

\* The size of a document: key segments, plus one per inline table and one
\* per inline-table entry.
MaxDocSize == 6

Names == {"a", "b"}

SeqsUpTo(S, n) == UNION {[1..k -> S] : k \in 0..n}

Last(s) == s[Len(s)]
Front(s) == SubSeq(s, 1, Len(s) - 1)

Put(f, k, v) == [x \in DOMAIN f \cup {k} |-> IF x = k THEN v ELSE f[x]]

Contains(s, c) == \E i \in DOMAIN s : s[i] = c

----------------------------------------------------------------------------
(* The table tree.  Go's nested map[string]interface{} is kept flat: a     *)
(* function from positions to nodes, where a position is the sequence of   *)
(* map keys leading to the node and the i-th element of an array of        *)
(* tables sits under the segment IdxSeg(i).                                *)

IdxSeg(i) == "#" \o ToString(i)

HashNode == [kind |-> "hash", v |-> <<>>, len |-> 0]
ArrNode(n) == [kind |-> "arr", v |-> <<>>, len |-> n]
ValNode(v) == [kind |-> "val", v |-> v, len |-> 0]

\* make(map[string]interface{}) as a value to store
EmptyTable == (<<>> :> HashNode)

ScalarTree(v) == (<<>> :> ValNode(v))

\* hash[key] = value, for a value that is a whole subtree
Graft(m, path, value) ==
    [q \in DOMAIN m \cup {path \o r : r \in DOMAIN value} |->
        IF \E r \in DOMAIN value : q = path \o r
        THEN value[CHOOSE r \in DOMAIN value : q = path \o r]
        ELSE m[q]]

----------------------------------------------------------------------------
(* Keys                                                                    *)

RECURSIVE KeyString(_)
KeyString(key) ==
    IF key = <<>> THEN ""
    ELSE IF Len(key) = 1 THEN key[1]
    ELSE key[1] \o "." \o KeyString(Tail(key))

KeyAdd(key, piece) == Append(key, piece)

----------------------------------------------------------------------------
(* Panics                                                                  *)

\* A panic unwinds the call stack up to the deferred recover of parse: it is
\* recorded in the field err, and every operation of a parser that has
\* panicked is a no-op.
NoErr == [msg |-> "", key |-> <<>>]

Panicked(q) == q.err.msg # ""

panicf(q, msg, key) ==
    IF Panicked(q) THEN q ELSE [q EXCEPT !.err = [msg |-> msg, key |-> key]]

bug(q) == IF Panicked(q) THEN q ELSE [q EXCEPT !.err = [msg |-> "BUG", key |-> <<>>]]

----------------------------------------------------------------------------
(* Implicit-table bookkeeping                                              *)

addImplicit(q, key) ==
    IF Panicked(q) THEN q ELSE [q EXCEPT !.implicits = Put(@, KeyString(key), TRUE)]

removeImplicit(q, key) ==
    IF Panicked(q) THEN q ELSE [q EXCEPT !.implicits = Put(@, KeyString(key), FALSE)]

isImplicit(q, key) ==
    /\ KeyString(key) \in DOMAIN q.implicits
    /\ q.implicits[KeyString(key)]

----------------------------------------------------------------------------
(* setValue, setType                                                       *)

\* The walk of setValue from the root down the context: the position of the
\* current hash, or ok = FALSE where the code calls p.bug.
RECURSIVE contextWalk(_, _, _)
contextWalk(m, hashPath, ctx) ==
    IF ctx = <<>> THEN [ok |-> TRUE, hashPath |-> hashPath]
    ELSE LET path == Append(hashPath, Head(ctx))
         IN  IF path \notin DOMAIN m THEN [ok |-> FALSE, hashPath |-> path]
             ELSE CASE m[path].kind = "arr" ->
                         contextWalk(m, Append(path, IdxSeg(m[path].len)), Tail(ctx))
                    [] m[path].kind = "hash" ->
                         contextWalk(m, path, Tail(ctx))
                    [] OTHER -> [ok |-> FALSE, hashPath |-> path]

\* setValue once the walk w of the context is done.
\* The mutant of setValueAt that stores the value over a table that was
\* defined implicitly.
setValueOverwrite(q, w, key, value) ==
    IF Panicked(q) THEN q
    ELSE IF ~w.ok THEN bug(q)
    ELSE IF Append(w.hashPath, key) \in DOMAIN q.mapping
    THEN IF isImplicit(q, Append(q.context, key))
         THEN [removeImplicit(q, Append(q.context, key)) EXCEPT !.mapping =
                  Graft([t \in {u \in DOMAIN q.mapping :
                                  \/ Len(u) < Len(w.hashPath) + 1
                                  \/ SubSeq(u, 1, Len(w.hashPath) + 1)
                                        # Append(w.hashPath, key)} |-> q.mapping[t]],
                        Append(w.hashPath, key), value)]
         ELSE panicf(q, "has already been defined", Append(q.context, key))
    ELSE [q EXCEPT !.mapping = Graft(@, Append(w.hashPath, key), value)]

setValueAt(q, w, key, value) ==
    IF Panicked(q) THEN q
    ELSE IF ~w.ok THEN bug(q)
    ELSE IF Append(w.hashPath, key) \in DOMAIN q.mapping
    THEN IF isImplicit(q, Append(q.context, key))
         THEN removeImplicit(q, Append(q.context, key))
         ELSE panicf(q, "has already been defined", Append(q.context, key))
    ELSE [q EXCEPT !.mapping = Graft(@, Append(w.hashPath, key), value)]

setValue(q, key, value) ==
    setValueAt(q, contextWalk(q.mapping, <<>>, q.context), key, value)

\* the type of a key left unrecorded
noType(q, key, typ) == q

setType(q, key, typ) ==
    IF Panicked(q) THEN q
    ELSE [q EXCEPT !.types =
             Put(@, KeyString(IF key # "" THEN Append(q.context, key) ELSE q.context),
                 typ)]

set(q, key, val, typ) == setType(setValue(q, q.currentKey, val), q.currentKey, typ)

----------------------------------------------------------------------------
(* establishContext                                                        *)

\* The loop over key[0 : len(key)-1]: establishWalk is the loop at the
\* segments `rest`, establishStep the end of its body, the type switch on
\* hashContext[k].
RECURSIVE establishWalk(_, _, _, _), establishStep(_, _, _, _)
establishWalk(q, hashPath, keyContext, rest) ==
    IF rest = <<>> \/ Panicked(q)
    THEN [p |-> q, hashPath |-> hashPath, keyContext |-> keyContext]
    ELSE establishStep(
             IF Append(hashPath, Head(rest)) \notin DOMAIN q.mapping
             THEN [addImplicit(q, Append(keyContext, Head(rest)))
                      EXCEPT !.mapping = Put(@, Append(hashPath, Head(rest)), HashNode)]
             ELSE q,
             Append(hashPath, Head(rest)), Append(keyContext, Head(rest)), Tail(rest))

\* The mutant of establishStep that goes into the first element of an
\* array of tables.
establishStepFirst(q, path, keyContext, rest) ==
    CASE q.mapping[path].kind = "arr" ->
            establishWalk(q, Append(path, IdxSeg(1)), keyContext, rest)
      [] q.mapping[path].kind = "hash" ->
            establishWalk(q, path, keyContext, rest)
      [] OTHER ->
            [p |-> panicf(q, "was already created as a hash", keyContext),
             hashPath |-> path, keyContext |-> keyContext]

establishStep(q, path, keyContext, rest) ==
    CASE q.mapping[path].kind = "arr" ->
            establishWalk(q, Append(path, IdxSeg(q.mapping[path].len)), keyContext, rest)
      [] q.mapping[path].kind = "hash" ->
            establishWalk(q, path, keyContext, rest)
      [] OTHER ->
            [p |-> panicf(q, "was already created as a hash", keyContext),
             hashPath |-> path, keyContext |-> keyContext]

\* The if array {...} else {...} of establishContext; path is the place of
\* hashContext[k].
establishLast(q, path, k, array) ==
    LET m1 == IF path \notin DOMAIN q.mapping
              THEN Put(q.mapping, path, ArrNode(0))
              ELSE q.mapping
        n == m1[path].len
    IN  IF Panicked(q) THEN q
        ELSE IF array
        THEN IF m1[path].kind = "arr"
             THEN [q EXCEPT !.mapping =
                      Put(Put(m1, path, ArrNode(n + 1)),
                          Append(path, IdxSeg(n + 1)), HashNode)]
             ELSE panicf(q, "was already created and cannot be used as an array",
                         q.context)
        ELSE setValue(q, k, EmptyTable)

\* p.context = append(p.context, k)
contextAppend(q, k) ==
    IF Panicked(q) THEN q ELSE [q EXCEPT !.context = Append(@, k)]

\* establishContext once the loop has left w.
establishAfterWalk(w, k, array) ==
    IF Panicked(w.p) THEN w.p
    ELSE contextAppend(
             establishLast([w.p EXCEPT !.context = w.keyContext],
                           Append(w.hashPath, k), k, array),
             k)

establishContext(q, key, array) ==
    establishAfterWalk(establishWalk(q, <<>>, <<>>, Front(key)), Last(key), array)

----------------------------------------------------------------------------
(* Values                                                                  *)

Scalar == [kind |-> "scalar", ents |-> <<>>]
Inline(ents) == [kind |-> "inline", ents |-> ents]

\* An array `[e1, e2, ...]` whose elements are scalars ("scalar") and empty
\* inline tables ("table").
Array(elems) == [kind |-> "array", ents |-> <<>>, elems |-> elems]

\* The Go value of an array read on a line: []interface{} of the elements.
ListNode(line, elems) == [kind |-> "list", v |-> <<line, elems>>, len |-> 0]

\* The type of an array: the elements may differ in type.
typeOfArray(types) == "Array"

\* p.ordered = append(p.ordered, key)
orderedAppend(q, key) ==
    IF Panicked(q) THEN q ELSE [q EXCEPT !.ordered = Append(@, key)]

\* p.ordered = append(p.ordered, p.context.add(p.currentKey))
orderedCurrent(q) == orderedAppend(q, KeyAdd(q.context, q.currentKey))

\* The loop of the itemInlineTableStart case over the entries `k = v` of an
\* inline table, entry j onwards; hash is the Go map built so far.
RECURSIVE inlineEntries(_, _, _, _, _)
inlineEntries(q, hash, ents, j, line) ==
    IF j > Len(ents) THEN [p |-> q, tree |-> hash]
    ELSE inlineEntries(
             orderedCurrent(
                 setType([q EXCEPT !.approxLine = line, !.currentKey = ents[j]],
                         ents[j], "Integer")),
             Put(hash, <<ents[j]>>, ValNode(<<line, j>>)), ents, j + 1, line)

\* The end of the itemInlineTableStart case: r is what the loop left.
inlineEnd(r, outerContext, outerKey) ==
    [p |-> [r.p EXCEPT !.context = outerContext, !.currentKey = outerKey],
     tree |-> r.tree, typ |-> "Hash"]

\* value: the Go value (a subtree) and its type, with the parser as the
\* inline-table case leaves it.
value(q, val, line) ==
    IF Panicked(q) THEN [p |-> q, tree |-> EmptyTable, typ |-> ""]
    ELSE IF val.kind = "inline"
    THEN inlineEnd(inlineEntries([q EXCEPT !.context = Append(@, q.currentKey),
                                           !.currentKey = ""],
                                 EmptyTable, val.ents, 1, line),
                   q.context, q.currentKey)
    ELSE IF val.kind = "array"
    THEN [p |-> q, tree |-> (<<>> :> ListNode(line, val.elems)),
          typ |-> typeOfArray(val.elems)]
    ELSE [p |-> q, tree |-> ScalarTree(<<line, 0>>), typ |-> "Integer"]

----------------------------------------------------------------------------
(* topLevel                                                                *)

topLevelTable(q, key, line) ==
    orderedAppend(
        setType(establishContext([q EXCEPT !.approxLine = line], key, FALSE),
                "", "Hash"),
        key)

topLevelArrayTable(q, key, line) ==
    orderedAppend(
        setType(establishContext([q EXCEPT !.approxLine = line], key, TRUE),
                "", "ArrayHash"),
        key)

\* for i := range key[:len(key)-1] { addImplicit(app); establishContext(app, false) }
RECURSIVE dottedPrefix(_, _, _)
dottedPrefix(q, key, i) ==
    IF i > Len(key) - 1 \/ Panicked(q) THEN q
    ELSE dottedPrefix(
             establishContext(addImplicit(q, Append(q.context, key[i])),
                              Append(q.context, key[i]), FALSE),
             key, i + 1)

\* p.set(p.currentKey, val, typ), for the val and typ that value returned.
setResult(r) == set(r.p, r.p.currentKey, r.tree, r.typ)

\* The end of the itemKeyStart case: the context is cut back and the
\* current key cleared.
keyEnd(q, key) ==
    IF Panicked(q) THEN q
    ELSE [q EXCEPT !.context = IF Len(key) > 1 THEN SubSeq(@, 1, Len(key) - 2) ELSE @,
                   !.currentKey = ""]

topLevelKey(q, key, val, line) ==
    keyEnd(
        orderedCurrent(
            setResult(
                value(dottedPrefix([q EXCEPT !.approxLine = line,
                                             !.currentKey = Last(key)],
                                   key, 1),
                      val, line))),
        key)

----------------------------------------------------------------------------
(* parse                                                                   *)

NewParser ==
    [mapping |-> <<>>, types |-> <<>>, ordered |-> <<>>, context |-> <<>>,
     currentKey |-> "", approxLine |-> 0, implicits |-> <<>>, err |-> NoErr]

\* What the deferred recover of parse makes of the panic: a ParseError is
\* returned as err, anything else is panicked again.
Outcome(q) ==
    IF ~Panicked(q) THEN "parsing"
    ELSE IF q.err.msg = "BUG" THEN "crash"
    ELSE "error"

----------------------------------------------------------------------------
(* The lexer (src/lex.go).  The input is a sequence of runes, each a       *)
(* one-character string; every rune of the alphabet is one byte wide.      *)
(* A lexer is the record of type lexer with one field more, fault, for the *)
(* ways the goroutine running it can die: "" while it runs, "deadlock"     *)
(* when emit blocks on the full channel that nobody else receives from,    *)
(* "stack overflow" when a state function recurses without end, "nil       *)
(* state" when nextItem calls the nil stateFn and "slice bounds" when emit *)
(* slices the input backwards.  A dead lexer stays as it is: every         *)
(* operation on it is a no-op.                                             *)

\* The rune 0, which next returns at the end of the input.
eof == "NUL"

keyGroupStart == "["

keyGroupEnd == "]"

keyGroupSep == "."

keySep == "="

arrayStart == "["

arrayEnd == "]"

arrayValTerm == ","

commentStart == "#"

Digits == {"0", "1", "2", "3", "4", "5", "6", "7", "8", "9"}

\* The capacity of the channel of items.
ItemsCap == 10

isWhitespace(r) == r = "\t" \/ r = " "

isNL(r) == r = "\n" \/ r = "\r"

\* backups, floor and strayed are history fields: the number of calls of
\* backup since the last call of next (counted up to 2), the read position
\* before the last call of next, and whether some call of backup was the
\* second one since the last call of next or took the read position to
\* before floor.
lex(input) ==
    [input |-> input, start |-> 0, pos |-> 0, width |-> 0, state |-> "lexTop",
     items |-> <<>>, arrayDepth |-> 0, fault |-> "", backups |-> 0, floor |-> 0,
     strayed |-> FALSE]

Dead(q) == q.fault # ""

Die(q, how) == IF Dead(q) THEN q ELSE [q EXCEPT !.fault = how]

\* A state function returns the next state.
Return(q, state) == IF Dead(q) THEN q ELSE [q EXCEPT !.state = state]

\* Sending on lx.items: blocks for ever when the channel is full, since the
\* only receiver is the goroutine that is sending.
Send(q, it) ==
    IF Dead(q) THEN q
    ELSE IF Len(q.items) >= ItemsCap THEN Die(q, "deadlock")
    ELSE [q EXCEPT !.items = Append(@, it)]

emit(q, typ) ==
    IF Dead(q) THEN q
    ELSE IF q.start > q.pos THEN Die(q, "slice bounds")
    ELSE LET sent == Send(q, [typ |-> typ,
                              val |-> SubSeq(q.input, q.start + 1, q.pos)])
         IN  IF Dead(sent) THEN sent ELSE [sent EXCEPT !.start = q.pos]

\* The rune lx.next() returns.
nextRune(q) == IF q.pos >= Len(q.input) THEN eof ELSE q.input[q.pos + 1]

\* The lexer after lx.next().
next(q) ==
    IF Dead(q) THEN q
    ELSE IF q.pos >= Len(q.input) THEN
        [q EXCEPT !.width = 0, !.backups = 0, !.floor = q.pos]
    ELSE [q EXCEPT !.width = 1, !.pos = @ + 1, !.backups = 0, !.floor = q.pos]

ignore(q) == IF Dead(q) THEN q ELSE [q EXCEPT !.start = q.pos]

backup(q) ==
    IF Dead(q) THEN q
    ELSE [q EXCEPT !.pos = @ - q.width,
                   !.backups = IF @ >= 2 THEN 2 ELSE @ + 1,
                   !.strayed = @ \/ q.backups >= 1 \/ q.pos - q.width < q.floor]

\* The lexer after lx.accept(valid); the call returns nextRune(q) = valid.
accept(q, valid) == IF nextRune(q) = valid THEN next(q) ELSE backup(next(q))

isValTerm(q, r) ==
    IF q.arrayDepth = 0 THEN isWhitespace(r) \/ isNL(r)
    ELSE isWhitespace(r) \/ isNL(r) \/ r = arrayEnd \/ r = arrayValTerm

\* errorf sends the Error item, whose val is the formatted message (here
\* the format and its arguments), and returns the nil state.
errorItem(msg) == [typ |-> "Error", val |-> msg]

errorf(q, msg) == Return(Send(q, errorItem(msg)), "nil")

lexSkip(q, nextState) == Return(ignore(q), nextState)

RECURSIVE lexNewLine(_, _), lexComment(_, _)
lexNewLine(q, nextState) ==
    LET r == nextRune(q)
        q1 == next(q)
    IN  IF isWhitespace(r) THEN lexNewLine(ignore(q1), nextState)
        ELSE CASE r = commentStart ->
                    lexComment(emit(q1, "CommentStart"), nextState)
               [] isNL(r) ->
                    Return(ignore(accept(accept(q1, "\r"), "\n")), nextState)
               [] r = eof -> Return(q1, "nil")
               [] OTHER ->
                    errorf(q1, <<"Expected new line but found '%c' instead.", r>>)

lexComment(q, nextState) ==
    LET r == nextRune(q)
        q1 == next(q)
    IN  CASE isNL(r) -> lexNewLine(emit(backup(q1), "Text"), nextState)
          [] r = eof -> Return(emit(emit(q1, "Text"), "EOF"), "nil")
          [] OTHER -> lexComment(q1, nextState)

lexTop(q) ==
    LET r == nextRune(q)
        q1 == next(q)
    IN  IF r = eof THEN Return(emit(q1, "EOF"), "nil")
        ELSE IF isWhitespace(r) \/ isNL(r) THEN lexSkip(q1, "lexTop")
        ELSE CASE r = commentStart -> lexNewLine(backup(q1), "lexTop")
               [] r = keyGroupStart ->
                    Return(emit(q1, "KeyGroupStart"), "lexKeyGroupTextStart")
               [] OTHER -> Return(emit(backup(q1), "KeyStart"), "lexKey")

lexKey(q) ==
    LET r == nextRune(q)
        q1 == next(q)
    IN  IF isNL(r) THEN errorf(q1, <<"Key names cannot contain new lines.">>)
        ELSE IF isWhitespace(r) THEN Return(emit(backup(q1), "Text"), "lexKeySep")
        ELSE Return(q1, "lexKey")

lexKeySep(q) ==
    LET r == nextRune(q)
        q1 == next(q)
    IN  IF isWhitespace(r) THEN Return(ignore(q1), "lexKeySep")
        ELSE IF r = keySep THEN Return(q1, "lexValueStart")
        ELSE errorf(q1, <<"Expected key separator '%c' but found '%c'.", keySep, r>>)

lexValueStart(q) ==
    IF isWhitespace(nextRune(q)) THEN lexSkip(next(q), "lexValueStart")
    ELSE Return(backup(next(q)), "lexValue")

lexValue(q) ==
    LET q0 == ignore(q)
        r == nextRune(q0)
        q1 == next(q0)
    IN  IF isWhitespace(r) THEN lexSkip(q1, "lexValue")
        ELSE CASE isNL(r) ->
                    errorf(q1, <<"Expected TOML value, but found nil instead.">>)
               [] r = "\"" -> Return(ignore(q1), "lexString")
               [] r = "t" -> Return(q1, "lexTr")
               [] r = "f" -> Return(q1, "lexFa")
               [] r = "-" -> Return(q1, "lexNegative")
               [] r \in Digits -> Return(q1, "lexNumber")
               [] r = "." ->
                    errorf(q1, <<"TOML float values must be of the form '0.x'.">>)
               [] r = arrayStart ->
                    Return(emit(q1, "ArrayStart"), "lexArrayStart")
               [] OTHER ->
                    errorf(q1, <<"Expected TOML value but found '%c' instead.", r>>)

lexArrayStart(q) ==
    LET r == nextRune(q)
        q1 == next(q)
        q2 == IF Dead(q1) THEN q1 ELSE [q1 EXCEPT !.arrayDepth = @ + 1]
    IN  IF isWhitespace(r) \/ isNL(r) THEN lexSkip(q1, "lexArrayStart")
        ELSE IF r = arrayEnd THEN Return(q2, "lexArrayEnd")
        ELSE Return(backup(q2), "lexCommentOrVal")

\* The mutant of lexArrayEnd that steps back twice.
lexArrayEndTwice(q) ==
    LET q1 == accept(ignore(backup(backup(q))), arrayEnd)
        q2 == IF Dead(q1) THEN q1 ELSE [q1 EXCEPT !.arrayDepth = @ - 1]
    IN  Return(emit(q2, "ArrayEnd"), "lexValTerm")

lexArrayEnd(q) ==
    LET q1 == accept(ignore(backup(q)), arrayEnd)
        q2 == IF Dead(q1) THEN q1 ELSE [q1 EXCEPT !.arrayDepth = @ - 1]
    IN  Return(emit(q2, "ArrayEnd"), "lexValTerm")

lexNegative(q) ==
    LET r == nextRune(q)
        q1 == next(q)
    IN  IF r = "." THEN
            errorf(q1, <<"TOML float values must be of the form '-0.x'.">>)
        ELSE IF r \in Digits THEN Return(q1, "lexNumber")
        ELSE errorf(q1, <<"Expected a digit after negative sign, but found '%c'.", r>>)

lexNumber(q) ==
    LET r == nextRune(q)
        q1 == next(q)
    IN  IF isValTerm(q1, r) THEN Return(emit(backup(q1), "Integer"), "lexValTerm")
        ELSE CASE r \in Digits -> Return(q1, "lexNumber")
               [] r = "." -> Return(q1, "lexFloatFirstAfterDot")
               [] r = "-" ->
                    IF q1.pos - q1.start # 5 THEN
                        errorf(q1, <<"All ISO8601 dates must be in full Zulu form.">>)
                    ELSE Return(q1, "lexZuluDatetimeAfterYear")
               [] OTHER ->
                    errorf(q1, <<"Expected either a digit or a decimal point, but found '%c' instead.", r>>)

\* The formats of lexZuluDatetimeAfterYear: "0" stands for a digit,
\* everything else for itself.
ZuluFormats ==
    <<"0", "0", "-", "0", "0", "T", "0", "0", ":", "0", "0", ":", "0", "0", "Z">>

RECURSIVE zuluLoop(_, _)
zuluLoop(q, i) ==
    IF i > Len(ZuluFormats) THEN Return(emit(q, "Datetime"), "lexValTerm")
    ELSE LET f == ZuluFormats[i]
             r == nextRune(q)
             q1 == next(q)
         IN  IF f = "0" THEN
                 IF r \notin Digits THEN
                     errorf(q1, <<"Expected digit in ISO8601 datetime, but found '%c' instead.", r>>)
                 ELSE zuluLoop(q1, i + 1)
             ELSE IF f # r THEN
                 errorf(q1, <<"Expected '%c' in ISO8601 datetime, but found '%c' instead.", f, r>>)
             ELSE zuluLoop(q1, i + 1)

lexZuluDatetimeAfterYear(q) == zuluLoop(q, 1)

lexFloatFirstAfterDot(q) ==
    LET r == nextRune(q)
        q1 == next(q)
    IN  IF r \in Digits THEN Return(q1, "lexFloat")
        ELSE IF isNL(r) THEN
            errorf(q1, <<"Expected a digit after the decimal point, but found a new line instead.">>)
        ELSE errorf(q1, <<"Expected a digit after the decimal point, but found '%c' instead.", r>>)

lexFloat(q) ==
    LET r == nextRune(q)
        q1 == next(q)
    IN  IF isValTerm(q1, r) THEN Return(emit(backup(q1), "Float"), "lexValTerm")
        ELSE IF r \in Digits THEN Return(q1, "lexFloat")
        ELSE errorf(q1, <<"Expected a digit but found '%c' instead.", r>>)

lexString(q) ==
    LET r == nextRune(q)
        q1 == next(q)
    IN  CASE r = eof -> errorf(q1, <<"Missing closing '\"' for string.">>)
          [] isNL(r) -> errorf(q1, <<"Strings cannot contain unescaped new lines.">>)
          [] r = "\\" -> Return(q1, "lexStringEsc")
          [] r = "\"" ->
               Return(accept(emit(backup(q1), "String"), "\""), "lexValTerm")
          [] OTHER -> Return(q1, "lexString")

lexStringEsc(q) ==
    LET r == nextRune(q)
        q1 == next(q)
    IN  IF r \in {"0", "t", "n", "r", "\"", "\\"} THEN Return(q1, "lexString")
        ELSE errorf(q1, <<"Invalid escape sequence '\\%c'.", r>>)

\* lexTr, lexTru, lexTrue, lexFa, lexFal, lexFals and lexFalse: the next
\* rune must be `want`; the last of each word emits the Bool.
lexWord(q, want, nextState, last, msg) ==
    LET r == nextRune(q)
        q1 == next(q)
    IN  IF r = want THEN
            IF last THEN Return(emit(q1, "Bool"), "lexValTerm")
            ELSE Return(q1, nextState)
        ELSE errorf(q1, <<msg, r>>)

lexTr(q) ==
    lexWord(q, "r", "lexTru", FALSE, "Expected 'true' but found 't%c' instead.")

lexTru(q) ==
    lexWord(q, "u", "lexTrue", FALSE, "Expected 'true' but found 'tr%c' instead.")

lexTrue(q) ==
    lexWord(q, "e", "lexValTerm", TRUE, "Expected 'true' but found 'tru%c' instead.")

lexFa(q) ==
    lexWord(q, "a", "lexFal", FALSE, "Exepcted 'false' but found 'f%c' instead.")

lexFal(q) ==
    lexWord(q, "l", "lexFals", FALSE, "Exepcted 'false' but found 'fa%c' instead.")

lexFals(q) ==
    lexWord(q, "s", "lexFalse", FALSE, "Exepcted 'false' but found 'fal%c' instead.")

lexFalse(q) ==
    lexWord(q, "e", "lexValTerm", TRUE, "Exepcted 'false' but found 'fals%c' instead.")

\* lexKeyGroupText calls itself on every rune that is neither '.' nor ']'.
\* At the end of the input next consumes nothing and returns eof, so the
\* call repeats itself without end and the goroutine's stack overflows.
RECURSIVE lexKeyGroupText(_)
lexKeyGroupText(q) ==
    LET r == nextRune(q)
        q1 == next(q)
    IN  CASE r = keyGroupSep ->
               Return(ignore(accept(emit(backup(q1), "Text"), keyGroupSep)),
                      "lexKeyGroupTextStart")
          [] r = keyGroupEnd ->
               lexNewLine(emit(accept(emit(backup(q1), "Text"), keyGroupEnd),
                               "KeyGroupEnd"),
                          "lexTop")
          [] OTHER -> IF Dead(q1) THEN q1
                      ELSE IF q1.pos = q.pos THEN Die(q1, "stack overflow")
                      ELSE lexKeyGroupText(q1)

\* The state errorf returns is dropped: only its Error item is sent, and
\* the function goes on into lexKeyGroupText.
lexKeyGroupTextStart(q) ==
    LET r == nextRune(q)
        q1 == next(q)
    IN  IF r = "." \/ r = "]" THEN
            lexKeyGroupText(Send(q1, errorItem(<<"Key group names cannot be empty.">>)))
        ELSE lexKeyGroupText(q1)

lexValTerm(q) ==
    IF q.arrayDepth = 0 THEN lexNewLine(q, "lexTop")
    ELSE Return(q, "lexTermThenVal")

lexCommentOrVal(q) ==
    LET r == nextRune(q)
        q1 == next(q)
    IN  IF isWhitespace(r) \/ isNL(r) THEN Return(q1, "lexCommentOrVal")
        ELSE IF r = commentStart THEN
            lexNewLine(ignore(backup(q1)), "lexCommentOrVal")
        ELSE Return(backup(q1), "lexValue")

lexTermThenVal(q) ==
    LET r == nextRune(q)
        q1 == next(q)
    IN  IF isWhitespace(r) \/ isNL(r) THEN Return(q1, "lexTermThenVal")
        ELSE CASE r = commentStart ->
                    lexNewLine(ignore(backup(q1)), "lexTermThenVal")
               [] r = arrayValTerm -> Return(q1, "lexValOrArrayEnd")
               [] r = arrayEnd -> Return(q1, "lexArrayEnd")
               [] OTHER ->
                    errorf(q1, <<"Expected array terminator ('%c' or '%c'), but found '%c' instead.",
                                 arrayEnd, arrayValTerm, r>>)

lexValOrArrayEnd(q) ==
    LET r == nextRune(q)
        q1 == next(q)
    IN  IF isWhitespace(r) \/ isNL(r) THEN Return(q1, "lexValOrArrayEnd")
        ELSE CASE r = commentStart ->
                    lexNewLine(ignore(backup(q1)), "lexValOrArrayEnd")
               [] r = arrayEnd -> Return(q1, "lexArrayEnd")
               [] r = eof ->
                    errorf(q1, <<"Expected array terminator '%c', but got EOF.", arrayEnd>>)
               [] OTHER -> Return(backup(q1), "lexValue")

\* lx.state(lx), as nextItem calls it.
StateFn(q) ==
    CASE q.state = "lexTop" -> lexTop(q)
      [] q.state = "lexKey" -> lexKey(q)
      [] q.state = "lexKeySep" -> lexKeySep(q)
      [] q.state = "lexValueStart" -> lexValueStart(q)
      [] q.state = "lexValue" -> lexValue(q)
      [] q.state = "lexArrayStart" -> lexArrayStart(q)
      [] q.state = "lexArrayEnd" -> lexArrayEnd(q)
      [] q.state = "lexNegative" -> lexNegative(q)
      [] q.state = "lexNumber" -> lexNumber(q)
      [] q.state = "lexZuluDatetimeAfterYear" -> lexZuluDatetimeAfterYear(q)
      [] q.state = "lexFloatFirstAfterDot" -> lexFloatFirstAfterDot(q)
      [] q.state = "lexFloat" -> lexFloat(q)
      [] q.state = "lexString" -> lexString(q)
      [] q.state = "lexStringEsc" -> lexStringEsc(q)
      [] q.state = "lexTr" -> lexTr(q)
      [] q.state = "lexTru" -> lexTru(q)
      [] q.state = "lexTrue" -> lexTrue(q)
      [] q.state = "lexFa" -> lexFa(q)
      [] q.state = "lexFal" -> lexFal(q)
      [] q.state = "lexFals" -> lexFals(q)
      [] q.state = "lexFalse" -> lexFalse(q)
      [] q.state = "lexKeyGroupTextStart" -> lexKeyGroupTextStart(q)
      [] q.state = "lexValTerm" -> lexValTerm(q)
      [] q.state = "lexCommentOrVal" -> lexCommentOrVal(q)
      [] q.state = "lexTermThenVal" -> lexTermThenVal(q)
      [] q.state = "lexValOrArrayEnd" -> lexValOrArrayEnd(q)
      [] q.state = "nil" -> Die(q, "nil state")

\* Go's nil, as a pointer and as an error.
Nil == [nil |-> TRUE]

\* parser.current: the full key name of the current context.
current(q) ==
    IF q.currentKey = "" THEN KeyString(q.context)
    ELSE IF q.context = <<>> THEN q.currentKey
    ELSE KeyString(q.context) \o "." \o q.currentKey

\* The ParseError panicf panics with; Key is the argument of the message.
ParseErrorOf(q) ==
    [Message |-> q.err.msg, Key |-> q.err.key, Line |-> q.approxLine,
     LastKey |-> current(q)]

\* The named results (p, err) parse returns with, the loop having ended as
\* res says with the parser q: the deferred recover assigns err alone, so
\* p is still the parser parse allocated.
parseReturn(q, res) ==
    [p |-> q, err |-> IF res = "error" THEN ParseErrorOf(q) ELSE Nil]

\* The mutant of Decode that does not look at err.
DecodeUnchecked(q, res) ==
    [err |-> parseReturn(q, res).err, v |-> parseReturn(q, res).p.mapping]

\* Decode: the error it returns and the tree it has handed to unify for v
\* (Nil: unify was not called).
Decode(q, res) ==
    IF parseReturn(q, res).err # Nil
    THEN [err |-> parseReturn(q, res).err, v |-> Nil]
    ELSE [err |-> Nil, v |-> parseReturn(q, res).p.mapping]

----------------------------------------------------------------------------
(* The encoder (src/encode.go), for the values Decode stores in an `any`:  *)
(* the tree of a parse.  What it writes is kept line by line; a line is    *)
(* the header or the `key = value` written, with its indentation, and pos  *)
(* is a history field, the position of the tree the line was written for.  *)
(* An encoder is the lines written and the panic that ended the encoding,  *)
(* with hasWritten and wroteNL of type Encoder, the comments of its         *)
(* MetaData (the keys that have a comment, and where it goes) and w, all    *)
(* that went to the writer: a chunk of w is the n-th line of out, a         *)
(* newline, or a comment written when n lines had been written.  room is    *)
(* the writer under enc.w: the number of writes it takes before it returns  *)
(* its error, to that write and to every later one (a bufio.Writer keeps   *)
(* its first error); -1 is a writer that never fails.                      *)

NewEncoder ==
    [out |-> <<>>, panic |-> "", hasWritten |-> FALSE, wroteNL |-> 0, w |-> <<>>,
     comments |-> {}, room |-> -1]

\* NewEncoder(w) for a writer w that fails after `room` writes
WithWriter(room) == [NewEncoder EXCEPT !.room = room]

\* One write taken by the writer.
Taken(room) == IF room > 0 THEN room - 1 ELSE room

\* NewEncoder(w).MetaData(m), for the comments of m
WithComments(comments) == [NewEncoder EXCEPT !.comments = comments]

\* panic(tomlEncodeError{err}), which safeEncode returns as the error
encPanic(e, err) == IF e.panic # "" THEN e ELSE [e EXCEPT !.panic = "error: " \o err]

\* panic(string), which safeEncode panics again
rawPanic(e, msg) == IF e.panic # "" THEN e ELSE [e EXCEPT !.panic = "panic: " \o msg]

\* enc.wf of a whole line
wf(e, line) ==
    IF e.panic # "" THEN e
    ELSE IF e.room = 0 THEN encPanic(e, "writer")
    ELSE [e EXCEPT !.out = Append(@, line),
                   !.w = Append(@, [t |-> "line", n |-> Len(e.out) + 1]),
                   !.wroteNL = 0,
                   !.hasWritten = TRUE,
                   !.room = Taken(@)]

\* enc.w.WriteString of a comment, which goes past wf
\* and drops the error of the writer
WriteString(e, t) ==
    IF e.panic # "" \/ e.room = 0 THEN e
    ELSE [e EXCEPT !.w = Append(@, [t |-> t, n |-> Len(e.out)]), !.room = Taken(@)]

\* The mutant of newline that writes n newlines whatever was written before.
newlineAlways(e, n) ==
    IF e.panic # "" \/ ~e.hasWritten THEN e
    ELSE [e EXCEPT !.wroteNL = @ + n,
                   !.w = @ \o [i \in 1..n |-> [t |-> "nl", n |-> 0]]]

\* newline ensures there are n newlines here.
newline(e, n) ==
    IF e.panic # "" \/ ~e.hasWritten \/ n - e.wroteNL <= 0 THEN e
    ELSE IF e.room = 0 THEN encPanic(e, "writer")
    ELSE [e EXCEPT !.wroteNL = @ + (n - e.wroteNL),
                   !.w = @ \o [i \in 1..(n - e.wroteNL) |-> [t |-> "nl", n |-> 0]],
                   !.room = Taken(@)]

\* encode, before the value: the Doc comment of the key
docComment(e, key) ==
    IF [key |-> key, where |-> "commentDoc"] \in e.comments
    THEN newline(WriteString(e, "doc"), 1)
    ELSE e

\* encode, after the value: the comment after the key, then the newlines
afterKey(e, key) ==
    newline(newline(IF [key |-> key, where |-> "commentComment"] \in e.comments
                    THEN newline(WriteString(e, "comment"), 1)
                    ELSE e, 1),
            IF [key |-> key, where |-> "commentDoc"] \in e.comments THEN 1 ELSE 0)

\* len(key)-1 levels of indentation
indentStr(key) == Len(key) - 1

\* tomlArrayType, for the []interface{} of an array: the type of the first
\* element, nil for an empty array.
tomlArrayType(elems) ==
    IF elems = <<>> THEN "nil"
    ELSE IF elems[1] = "table" THEN "Table" ELSE "Integer"

tomlTypeOfGo(node) ==
    CASE node.kind = "hash" -> "Table"
      [] node.kind = "arr" -> "ArrayTable"
      [] node.kind = "list" ->
            IF tomlArrayType(node.v[2]) = "Table" THEN "ArrayTable" ELSE "Array"
      [] OTHER -> "Integer"

typeIsTable(t) == t = "Table" \/ t = "ArrayTable"

\* sort.Strings, for the keys of the model
SortedNames == <<"a", "b">>

sortStrings(keys) == SelectSeq(SortedNames, LAMBDA k : k \in keys)

\* rv.MapKeys() of the table at pos
MapKeys(m, pos) ==
    {q[Len(q)] : q \in {r \in DOMAIN m : Len(r) = Len(pos) + 1 /\ Front(r) = pos}}

mapKeysDirect(m, pos) ==
    {k \in MapKeys(m, pos) : ~typeIsTable(tomlTypeOfGo(m[Append(pos, k)]))}

mapKeysSub(m, pos) ==
    {k \in MapKeys(m, pos) : typeIsTable(tomlTypeOfGo(m[Append(pos, k)]))}

\* writeKeyValue and eElement: `key = value` with the last segment of the key
writeKeyValue(e, key, node, pos) ==
    IF Len(key) = 0 THEN encPanic(e, "errNoKey")
    ELSE wf(e, [kind |-> "key", indent |-> indentStr(key), key |-> <<Last(key)>>,
                val |-> node, pos |-> pos])

\* The mutant of header that writes the last segment of the key only.
headerLastSegment(e, kind, key, pos) ==
    wf(e, [kind |-> kind, indent |-> indentStr(key), key |-> <<Last(key)>>,
           val |-> HashNode, pos |-> pos])

\* "%s[%s]" and "%s[[%s]]" with the whole key
header(e, kind, key, pos) ==
    wf(e, [kind |-> kind, indent |-> indentStr(key), key |-> key,
           val |-> HashNode, pos |-> pos])

RECURSIVE encode(_, _, _, _)
RECURSIVE eMap(_, _, _, _)
RECURSIVE writeMapKeys(_, _, _, _, _, _)
RECURSIVE eArrayOfTables(_, _, _, _, _)

\* The loop of writeMapKeys from the i-th of the sorted keys on.
writeMapKeys(e, m, key, pos, mapKeys, i) ==
    IF i > Len(mapKeys) \/ e.panic # "" THEN e
    ELSE writeMapKeys(encode(e, m, Append(key, mapKeys[i]), Append(pos, mapKeys[i])),
                      m, key, pos, mapKeys, i + 1)

\* The mutant of eMap that writes the tables under a key first.
eMapSubFirst(e, m, key, pos) ==
    writeMapKeys(writeMapKeys(e, m, key, pos, sortStrings(mapKeysSub(m, pos)), 1),
                 m, key, pos, sortStrings(mapKeysDirect(m, pos)), 1)

eMap(e, m, key, pos) ==
    writeMapKeys(writeMapKeys(e, m, key, pos, sortStrings(mapKeysDirect(m, pos)), 1),
                 m, key, pos, sortStrings(mapKeysSub(m, pos)), 1)

\* eMapOrStruct of the i-th element of the array at pos: a table of an array
\* of tables, or an element of an array read as a value, where a table is
\* empty and anything else is no map or struct.
eMapOrStruct(e, m, key, pos, i) ==
    IF m[pos].kind = "arr" THEN eMap(e, m, key, Append(pos, IdxSeg(i)))
    ELSE IF m[pos].v[2][i] = "table" THEN e
    ELSE rawPanic(e, "eTable: unhandled reflect.Value Kind")

\* rv.Len() of the array at pos
rvLen(node) == IF node.kind = "arr" THEN node.len ELSE Len(node.v[2])

\* The loop of eArrayOfTables from the i-th element on.
eArrayOfTables(e, m, key, pos, i) ==
    IF Len(key) = 0 THEN encPanic(e, "errNoKey")
    ELSE IF i > rvLen(m[pos]) \/ e.panic # "" THEN e
    ELSE eArrayOfTables(
             eMapOrStruct(
                 newline(header(newline(e, 2), "arraytable", key,
                                Append(pos, IdxSeg(i))), 1),
                 m, key, pos, i),
             m, key, pos, i + 1)

eTable(e, m, key, pos) ==
    eMap(IF Len(key) > 0
         THEN newline(header(IF Len(key) = 1 THEN newline(e, 2) ELSE e,
                             "table", key, pos), 1)
         ELSE e,
         m, key, pos)

\* The switch of encode on the kind of the value.
encodeValue(e, m, key, pos) ==
    IF e.panic # "" THEN e
    ELSE CASE tomlTypeOfGo(m[pos]) = "ArrayTable" -> eArrayOfTables(e, m, key, pos, 1)
           [] tomlTypeOfGo(m[pos]) = "Table" -> eTable(e, m, key, pos)
           [] OTHER -> writeKeyValue(e, key, m[pos], pos)

encode(e, m, key, pos) == afterKey(encodeValue(docComment(e, key), m, key, pos), key)

\* Encode of the map Decode has stored, by the encoder e: the encoder it
\* leaves.
EncodeBy(e, m) == afterKey(eTable(docComment(e, <<>>), m, <<>>, <<>>), <<>>)

Encode(m) == EncodeBy(NewEncoder, m)

\* The run-time panic of a type assertion t.(String) on another type.
ConversionPanic == "interface conversion: toml.tomlType is not toml.String"

\* The panics safeEncode does not recover: it panics again.
IsRawPanic(e) ==
    e.panic \in {"panic: " \o "eTable: unhandled reflect.Value Kind",
                 "panic: " \o ConversionPanic}

\* enc.w.Flush(): the error of the writer, "" for nil
Flush(e) == IF e.room = 0 THEN "error: " \o "writer" ELSE ""

\* What Encode returns when the encoder is left as e: the error safeEncode
\* recovered, else what Flush returns; "crash" when Encode does not return
\* but panics.
EncodeReturns(e) ==
    [enc |-> e,
     err |-> IF IsRawPanic(e) THEN "crash" ELSE IF e.panic # "" THEN e.panic ELSE Flush(e)]

\* The parse of the text of an encoder, line by line from the i-th on.
RECURSIVE parseLines(_, _, _)
parseLines(q, out, i) ==
    IF i > Len(out) \/ Panicked(q) THEN q
    ELSE parseLines(
             CASE out[i].kind = "table" -> topLevelTable(q, out[i].key, i)
               [] out[i].kind = "arraytable" -> topLevelArrayTable(q, out[i].key, i)
               [] OTHER ->
                    topLevelKey(q, out[i].key,
                                IF out[i].val.kind = "list"
                                THEN Array(out[i].val.v[2]) ELSE Scalar, i),
             out, i + 1)

\* FuzzToml before Decode has returned, and the floats before anything.
\* Strings are sequences of characters; these are the characters the
\* quoting rules tell apart, and "x" for every other one.
Chars == {"x", "n", "'", "\"", "\\", "\n"}

\* The string as it is, nothing escaped.
noReplacer(s) == s

\* dblQuotedReplacer.Replace(s)
RECURSIVE dblQuotedReplacer(_)
dblQuotedReplacer(s) ==
    IF s = <<>> THEN <<>>
    ELSE (CASE Head(s) = "\"" -> <<"\\", "\"">>
            [] Head(s) = "\\" -> <<"\\", "\\">>
            [] Head(s) = "\n" -> <<"\\", "n">>
            [] OTHER -> <<Head(s)>>) \o dblQuotedReplacer(Tail(s))

\* strings.ReplaceAll(s, "\\n", "\n")
RECURSIVE unescapeNewlines(_)
unescapeNewlines(s) ==
    IF Len(s) < 2 THEN s
    ELSE IF s[1] = "\\" /\ s[2] = "n"
         THEN <<"\n">> \o unescapeNewlines(SubSeq(s, 3, Len(s)))
         ELSE <<s[1]>> \o unescapeNewlines(Tail(s))

IsString(t) == DOMAIN t = {"Literal", "Multiline"}
asString(t) == IF t = Nil THEN [Literal |-> FALSE, Multiline |-> FALSE] ELSE t

writeQuoted(e, s, typ) ==
    IF typ.Literal
    THEN IF typ.Multiline
         THEN wf(e, <<"'", "'", "'">> \o s \o <<"'", "'", "'", "\n">>)
         ELSE wf(e, <<"'">> \o s \o <<"'">>)
    ELSE IF typ.Multiline
         THEN wf(e, <<"\"", "\"", "\"">> \o unescapeNewlines(dblQuotedReplacer(s))
                        \o <<"\"", "\"", "\"", "\n">>)
         ELSE wf(e, <<"\"">> \o dblQuotedReplacer(s) \o <<"\"">>)

\* eElement for a value of kind reflect.String
\* eElement, case string; the assertion in asString panics on a hint of
\* another type.
eElementString(e, s, typ) ==
    IF typ # Nil /\ ~IsString(typ)
    THEN rawPanic(e, ConversionPanic)
    ELSE writeQuoted(e, s, asString(typ))

\* Inline tables.  The entries of a map in the order of their sorted keys,
\* or the fields of a struct in the order of their indexes, each by what
\* decides how it is written: "plain" (anything but a table), "table" (a
\* map or struct that is not nil), "nil" (isNil) and, for a struct field,
\* "omitted" (a plain value that is empty under the omitempty option).
InlineKinds == {"plain", "table", "nil", "omitted"}

\* typeIsTable(tomlTypeOfGo(v)): the type of a nil value is nil, no table.
IsSub(kind) == kind = "table"

\* The indexes of the entries that are sub-tables (sub = TRUE) or not.
RECURSIVE KeysOf(_, _, _)
KeysOf(entries, sub, i) ==
    IF i > Len(entries) THEN <<>>
    ELSE (IF IsSub(entries[i]) = sub THEN <<i>> ELSE <<>>) \o KeysOf(entries, sub, i + 1)

\* writeMapKeys(mapKeys, trailC) of eMap, inline, from the i-th key on
RECURSIVE writeMapKeysInline(_, _, _, _, _)
writeMapKeysInline(e, entries, mapKeys, trailC, i) ==
    IF i > Len(mapKeys) THEN e
    ELSE IF entries[mapKeys[i]] = "nil"
         THEN writeMapKeysInline(e, entries, mapKeys, trailC, i + 1)
    ELSE writeMapKeysInline(
             IF trailC \/ i - 1 # Len(mapKeys) - 1
             THEN wf(wf(e, [kind |-> "pair", key |-> mapKeys[i]]), [kind |-> ", "])
             ELSE wf(e, [kind |-> "pair", key |-> mapKeys[i]]),
             entries, mapKeys, trailC, i + 1)

\* eMap(nil, rv, true)
eMapInline(e, entries) ==
    wf(writeMapKeysInline(
           writeMapKeysInline(wf(e, [kind |-> "{"]), entries, KeysOf(entries, FALSE, 1),
                              KeysOf(entries, TRUE, 1) # <<>>, 1),
           entries, KeysOf(entries, TRUE, 1), FALSE, 1),
       [kind |-> "}"])

\* writeFields(fields) of eStruct, inline, from the i-th field on; a field
\* index fieldIndex[0] counts from 0
RECURSIVE writeFieldsInline(_, _, _, _)
writeFieldsInline(e, entries, fields, i) ==
    IF i > Len(fields) THEN e
    ELSE IF entries[fields[i]] \in {"nil", "omitted"}
         THEN writeFieldsInline(e, entries, fields, i + 1)
    ELSE writeFieldsInline(
             IF fields[i] - 1 # Len(fields) - 1
             THEN wf(wf(e, [kind |-> "pair", key |-> fields[i]]), [kind |-> ", "])
             ELSE wf(e, [kind |-> "pair", key |-> fields[i]]),
             entries, fields, i + 1)

\* eStruct(nil, rv, true)
eStructInline(e, entries) ==
    wf(writeFieldsInline(
           writeFieldsInline(wf(e, [kind |-> "{"]), entries, KeysOf(entries, FALSE, 1), 1),
           entries, KeysOf(entries, TRUE, 1), 1),
       [kind |-> "}"])

NoTrip == [stage |-> "none", enc |-> NewEncoder, back |-> NewParser, again |-> NewEncoder]

NoFloats == [stage |-> "none", text |-> <<>>, parsed |-> <<>>, encoded |-> <<>>,
             back |-> <<>>]

NoCall == [fn |-> "", args |-> <<>>, ret |-> <<>>, done |-> FALSE]

----------------------------------------------------------------------------
(* Documents                                                               *)

Item(kind, key, val) == [kind |-> kind, key |-> key, val |-> val]

Cost(it) ==
    Len(it.key) + IF it.val.kind = "inline" THEN 1 + Len(it.val.ents)
                  ELSE IF it.val.kind = "array" THEN Len(it.val.elems)
                  ELSE 0

RECURSIVE DocSize(_)
DocSize(d) == IF d = <<>> THEN 0 ELSE Cost(Head(d)) + DocSize(Tail(d))

KeysUpTo(n) == SeqsUpTo(Names, n) \ {<<>>}

\* The position a full key names in tree m, <<>> when its parent is no table.
TargetPos(m, fullkey) ==
    LET w == contextWalk(m, <<>>, Front(fullkey))
    IN  IF w.ok THEN Append(w.hashPath, Last(fullkey)) ELSE <<>>

\* The positions the prefixes of a full key name in tree m, as far as they
\* lead through tables.
RECURSIVE Visited(_, _, _)
Visited(m, hashPath, key) ==
    IF key = <<>> THEN {}
    ELSE LET path == Append(hashPath, Head(key))
         IN  {path} \cup
             IF path \notin DOMAIN m THEN {}
             ELSE CASE m[path].kind = "arr" ->
                         Visited(m, Append(path, IdxSeg(m[path].len)), Tail(key))
                    [] m[path].kind = "hash" -> Visited(m, path, Tail(key))
                    [] OTHER -> {}

\* The history kept of the items consumed:
\*   target    the position the last item names;
\*   concrete  the positions given a value by `key = value` (the entries of
\*             an inline table included) or declared by a header;
\*   inlines   the positions that hold an inline table;
\*   dotted    the positions a dotted key brought into existence as the
\*             tables of its prefixes;
\*   upgraded  the positions of tables that existed without a definition of
\*             their own when a [header] named them and was accepted.
NoHist ==
    [target |-> <<>>, concrete |-> {}, inlines |-> {}, dotted |-> {}, upgraded |-> {}]

\* Position t of tree m is a table that no item has defined itself.
OnlyImplicit(m, h, t) ==
    /\ t \in DOMAIN m
    /\ m[t].kind = "hash"
    /\ t \notin h.concrete

Record(it, q, fullkey) ==
    LET t == TargetPos(q.mapping, fullkey)
        ents == {it.val.ents[j] : j \in DOMAIN it.val.ents}
        stored == t \notin DOMAIN p.mapping
    IN  IF Panicked(q) THEN [hist EXCEPT !.target = t]
        ELSE [target |-> t,
              concrete |-> hist.concrete \cup {t} \cup {Append(t, e) : e \in ents},
              inlines |-> IF it.val.kind = "inline" /\ stored
                          THEN hist.inlines \cup {t} ELSE hist.inlines,
              dotted |-> IF it.kind = "key"
                         THEN hist.dotted \cup
                              (Visited(q.mapping, <<>>, Front(fullkey)) \ DOMAIN p.mapping)
                         ELSE hist.dotted,
              upgraded |-> IF it.kind = "table" /\ OnlyImplicit(p.mapping, hist, t)
                           THEN hist.upgraded \cup {t} ELSE hist.upgraded]

Consume(it, q, fullkey) ==
    /\ p' = q
    /\ result' = Outcome(q)
    /\ doc' = Append(doc, it)
    /\ hist' = Record(it, q, fullkey)
    /\ UNCHANGED <<lx, received, trip, floats, call>>

TableHeader(max) ==
    /\ result = "parsing"
    /\ \E key \in KeysUpTo(max - DocSize(doc)) :
          Consume(Item("table", key, Scalar),
                  topLevelTable(p, key, Len(doc) + 1), key)

ArrayTableHeader(max) ==
    /\ result = "parsing"
    /\ \E key \in KeysUpTo(max - DocSize(doc)) :
          Consume(Item("arraytable", key, Scalar),
                  topLevelArrayTable(p, key, Len(doc) + 1), key)

KeyValue(max) ==
    /\ result = "parsing"
    /\ \E key \in KeysUpTo(max - DocSize(doc)) :
          Consume(Item("key", key, Scalar),
                  topLevelKey(p, key, Scalar, Len(doc) + 1), p.context \o key)

KeyInlineTable(max) ==
    /\ result = "parsing"
    /\ \E key \in KeysUpTo(max - DocSize(doc) - 1) :
       \E ents \in SeqsUpTo(Names, max - DocSize(doc) - 1 - Len(key)) :
          Consume(Item("key", key, Inline(ents)),
                  topLevelKey(p, key, Inline(ents), Len(doc) + 1), p.context \o key)

\* item.typ == itemEOF: parse returns p, nil
EndOfFile ==
    /\ result = "parsing"
    /\ result' = "ok"
    /\ UNCHANGED <<p, doc, hist, lx, received, trip, floats, call>>

InitParse ==
    /\ p = NewParser
    /\ result = "parsing"
    /\ doc = <<>>
    /\ hist = NoHist
    /\ lx = lex(<<>>)
    /\ received = <<>>
    /\ trip = NoTrip
    /\ floats = NoFloats
    /\ call = NoCall

NextParse ==
    \/ TableHeader(MaxDocSize)
    \/ ArrayTableHeader(MaxDocSize)
    \/ KeyValue(MaxDocSize)
    \/ KeyInlineTable(MaxDocSize)
    \/ EndOfFile

vars == <<p, result, doc, hist, lx, received, trip, floats, call>>

SpecParse == InitParse /\ [][NextParse]_vars

----------------------------------------------------------------------------
(* FuzzToml (part_005): a document is decoded into an `any`, the value is  *)
(* encoded, and the text is decoded again; then, as TestEncodeRoundTrip    *)
(* does, the value decoded is encoded again.                               *)

MaxTripSize == 5

KeyArray(max) ==
    /\ result = "parsing"
    /\ \E key \in KeysUpTo(max - DocSize(doc)) :
       \E elems \in SeqsUpTo({"scalar", "table"}, max - DocSize(doc) - Len(key)) :
          Consume(Item("key", key, Array(elems)),
                  topLevelKey(p, key, Array(elems), Len(doc) + 1), p.context \o key)

\* err = toml.NewEncoder(buf).Encode(v)
FuzzEncode ==
    /\ result = "ok"
    /\ trip.stage = "none"
    /\ trip' = [trip EXCEPT !.stage = "encoded", !.enc = Encode(p.mapping)]
    /\ UNCHANGED <<p, result, doc, hist, lx, received, floats, call>>

\* _, err = toml.Decode(buf.String(), &v2)
FuzzDecode ==
    /\ trip.stage = "encoded"
    /\ trip.enc.panic = ""
    /\ trip' = [trip EXCEPT !.stage = "decoded",
                            !.back = parseLines(NewParser, trip.enc.out, 1)]
    /\ UNCHANGED <<p, result, doc, hist, lx, received, floats, call>>

\* err = NewEncoder(&secondBuffer).Encode(outputs)
EncodeAgain ==
    /\ trip.stage = "decoded"
    /\ ~Panicked(trip.back)
    /\ trip' = [trip EXCEPT !.stage = "again", !.again = Encode(trip.back.mapping)]
    /\ UNCHANGED <<p, result, doc, hist, lx, received, floats, call>>

NextRoundTrip ==
    \/ TableHeader(MaxTripSize)
    \/ ArrayTableHeader(MaxTripSize)
    \/ KeyValue(MaxTripSize)
    \/ KeyInlineTable(MaxTripSize)
    \/ KeyArray(MaxTripSize)
    \/ EndOfFile
    \/ FuzzEncode
    \/ FuzzDecode
    \/ EncodeAgain

SpecRoundTrip == InitParse /\ [][NextRoundTrip]_vars

----------------------------------------------------------------------------
(* Encoding with MetaData: NewEncoder(w).MetaData(meta).Encode(v), where   *)
(* meta carries comments for some keys of v.                               *)

MaxMetaSize == 3

MaxComments == 2

Comments ==
    {c \in SUBSET [key : SeqsUpTo(Names, 2) \ {<<>>},
                   where : {"commentDoc", "commentComment"}] :
        Cardinality(c) <= MaxComments}

EncodeWithMeta ==
    /\ result = "ok"
    /\ trip.stage = "none"
    /\ \E comments \in Comments :
          trip' = [trip EXCEPT !.stage = "meta",
                               !.enc = EncodeBy(WithComments(comments), p.mapping)]
    /\ UNCHANGED <<p, result, doc, hist, lx, received, floats, call>>

NextMeta ==
    \/ TableHeader(MaxMetaSize)
    \/ ArrayTableHeader(MaxMetaSize)
    \/ KeyValue(MaxMetaSize)
    \/ EndOfFile
    \/ EncodeWithMeta

SpecMeta == InitParse /\ [][NextMeta]_vars


\* Every variable but `call` as construction leaves it.
Idle ==
    /\ p = NewParser
    /\ result = "parsing"
    /\ doc = <<>>
    /\ hist = NoHist
    /\ lx = lex(<<>>)
    /\ received = <<>>
    /\ trip = NoTrip
    /\ floats = NoFloats

Apply(ret) ==
    /\ ~call.done
    /\ call' = [call EXCEPT !.ret = ret, !.done = TRUE]
    /\ UNCHANGED <<p, result, doc, hist, lx, received, trip, floats>>

----------------------------------------------------------------------------
(* Encoding a string value, with and without a type in the MetaData.       *)

MaxStringLen == 3

\* The hints of a key: none, a String, or the Int of another value.
IntType == [Width |-> 0, Base |-> 10]
StringTypes == {Nil, IntType} \cup [Literal : BOOLEAN, Multiline : BOOLEAN]

InitString ==
    /\ Idle
    /\ \E s \in SeqsUpTo(Chars, MaxStringLen), typ \in StringTypes :
          call = [NoCall EXCEPT !.fn = "eElement", !.args = <<s, typ>>]

EncodeString ==
    /\ call.fn = "eElement"
    /\ Apply(eElementString(NewEncoder, call.args[1], call.args[2]))

SpecString == InitString /\ [][EncodeString]_vars

----------------------------------------------------------------------------
(* Encoding a map or a struct as an inline table, as eElement does for a   *)
(* table inside an array.                                                  *)

MaxInlineLen == 4

InitInline ==
    /\ Idle
    /\ \/ \E entries \in SeqsUpTo(InlineKinds \ {"omitted"}, MaxInlineLen) :
             call = [NoCall EXCEPT !.fn = "eMap", !.args = entries]
       \/ \E entries \in SeqsUpTo(InlineKinds, MaxInlineLen) :
             call = [NoCall EXCEPT !.fn = "eStruct", !.args = entries]

EncodeInlineMap ==
    /\ call.fn = "eMap"
    /\ Apply(eMapInline(NewEncoder, call.args))

EncodeInlineStruct ==
    /\ call.fn = "eStruct"
    /\ Apply(eStructInline(NewEncoder, call.args))

NextInline ==
    \/ EncodeInlineMap
    \/ EncodeInlineStruct

SpecInline == InitInline /\ [][NextInline]_vars

----------------------------------------------------------------------------
(* Encode of a Go value to a writer that may fail.  The value is a map     *)
(* with up to two keys; what a key holds is its shape: a scalar, a map     *)
(* (empty, or with one scalar), a []map of one empty map, or an []any of   *)
(* scalars and empty maps.                                                 *)

MaxElems == 2

MaxRoom == 4

Shapes ==
    [kind : {"absent", "scalar", "table", "tableOfOne", "tables"}, elems : {<<>>}]
        \cup [kind : {"list"}, elems : SeqsUpTo({"scalar", "table"}, MaxElems)]

NoTree == [q \in {} |-> HashNode]

ValueAt(name, shape) ==
    CASE shape.kind = "absent" -> NoTree
      [] shape.kind = "scalar" -> (<<name>> :> ValNode(<<1, 0>>))
      [] shape.kind = "table" -> (<<name>> :> HashNode)
      [] shape.kind = "tableOfOne" ->
            (<<name>> :> HashNode) @@ (<<name, "a">> :> ValNode(<<1, 0>>))
      [] shape.kind = "tables" ->
            (<<name>> :> ArrNode(1)) @@ (<<name, IdxSeg(1)>> :> HashNode)
      [] shape.kind = "list" -> (<<name>> :> ListNode(1, shape.elems))

\* The map whose keys "a" and "b" hold the shapes x and y.
GoValue(x, y) == ValueAt("a", x) @@ ValueAt("b", y)

InitWriter ==
    /\ Idle
    /\ \E x \in Shapes, y \in Shapes, room \in -1..MaxRoom,
          comments \in {c \in Comments : Cardinality(c) <= 1} :
          call = [NoCall EXCEPT !.fn = "Encode",
                                !.args = [a |-> x, b |-> y, room |-> room,
                                          comments |-> comments]]

\* err := toml.NewEncoder(w).MetaData(meta).Encode(v)
EncodeToWriter ==
    /\ call.fn = "Encode"
    /\ Apply(EncodeReturns(EncodeBy([WithWriter(call.args.room)
                                         EXCEPT !.comments = call.args.comments],
                                    GoValue(call.args.a, call.args.b))))

SpecWriter == InitWriter /\ [][EncodeToWriter]_vars

----------------------------------------------------------------------------
(* Floats through Decode, Encode and Decode (TestDecodeSignbit).  A float  *)
(* literal is a sequence of runes; a float64 is its class, its sign bit    *)
(* and, for a finite value, the shortest decimal digits that give it.      *)

MaxFloats == 2

Nan == <<"n", "a", "n">>
Inf == <<"i", "n", "f">>

FloatTexts ==
    {Nan, <<"+">> \o Nan, <<"-">> \o Nan, Inf, <<"+">> \o Inf, <<"-">> \o Inf,
     <<"0", ".", "0">>, <<"-", "0", ".", "0">>, <<"1", ".", "5">>, <<"-", "1", ".", "5">>}

\* strconv.ParseFloat(val, 64), where it returns no error
ParseFloat(val) ==
    IF val = Nan THEN [class |-> "nan", sign |-> FALSE, digits |-> <<>>]
    ELSE IF val \in {Inf, <<"+">> \o Inf}
    THEN [class |-> "inf", sign |-> FALSE, digits |-> <<>>]
    ELSE IF val = <<"-">> \o Inf THEN [class |-> "inf", sign |-> TRUE, digits |-> <<>>]
    ELSE IF Head(val) = "-"
    THEN IF Tail(val) = <<"0", ".", "0">>
         THEN [class |-> "zero", sign |-> TRUE, digits |-> <<"0">>]
         ELSE [class |-> "finite", sign |-> TRUE, digits |-> Tail(val)]
    ELSE IF val = <<"0", ".", "0">>
         THEN [class |-> "zero", sign |-> FALSE, digits |-> <<"0">>]
         ELSE [class |-> "finite", sign |-> FALSE, digits |-> val]

\* value, case itemFloat, for a literal without underscores
valueFloat(val) ==
    ParseFloat(IF val = <<"+">> \o Nan \/ val = <<"-">> \o Nan THEN Nan ELSE val)

\* math.Signbit
Signbit(f) == f.sign

\* strconv.FormatFloat(f, 'f', -1, 64) of a finite float
FormatFloat(f) == (IF f.sign THEN <<"-">> ELSE <<>>) \o f.digits

floatAddDecimal(fstr) ==
    IF \E i \in DOMAIN fstr : fstr[i] = "." THEN fstr ELSE fstr \o <<".", "0">>

\* eElement, case reflect.Float32, reflect.Float64, without an exponent
eElementFloat(f) ==
    IF f.class = "nan" THEN Nan
    ELSE IF f.class = "inf" THEN <<IF Signbit(f) THEN "-" ELSE "+">> \o Inf
    ELSE floatAddDecimal(FormatFloat(f))

DecodeFloats ==
    /\ floats.stage = "text"
    /\ floats' = [floats EXCEPT !.stage = "parsed",
                      !.parsed = [i \in DOMAIN floats.text |-> valueFloat(floats.text[i])]]
    /\ UNCHANGED <<p, result, doc, hist, lx, received, trip, call>>

EncodeFloats ==
    /\ floats.stage = "parsed"
    /\ floats' = [floats EXCEPT !.stage = "encoded",
                      !.encoded = [i \in DOMAIN floats.parsed |->
                                     eElementFloat(floats.parsed[i])]]
    /\ UNCHANGED <<p, result, doc, hist, lx, received, trip, call>>

DecodeFloatsAgain ==
    /\ floats.stage = "encoded"
    /\ floats' = [floats EXCEPT !.stage = "back",
                      !.back = [i \in DOMAIN floats.encoded |->
                                  valueFloat(floats.encoded[i])]]
    /\ UNCHANGED <<p, result, doc, hist, lx, received, trip, call>>

InitFloats ==
    /\ \E text \in SeqsUpTo(FloatTexts, MaxFloats) \ {<<>>} :
          floats = [NoFloats EXCEPT !.stage = "text", !.text = text]
    /\ p = NewParser
    /\ result = "parsing"
    /\ doc = <<>>
    /\ hist = NoHist
    /\ lx = lex(<<>>)
    /\ received = <<>>
    /\ trip = NoTrip
    /\ call = NoCall

NextFloats ==
    \/ DecodeFloats
    \/ EncodeFloats
    \/ DecodeFloatsAgain

SpecFloats == InitFloats /\ [][NextFloats]_vars

----------------------------------------------------------------------------
(* Pulling items from the lexer.  The puller is the parse loop: it calls   *)
(* nextItem until it has received the EOF item, where the loop breaks, or  *)
(* an Error item, on which parser.next panics.  One call of nextItem is    *)
(* the steps below: while the channel is empty it calls the state          *)
(* function, then it receives the first item of the channel.               *)

\* The inputs: every string over Alphabet of at most MaxInputLen runes and
\* the sample documents, which exercise the values.
MaxInputLen == 4

Alphabet == {"[", "]", ".", "=", "#", " ", "\n", "a", eof}

Samples ==
    { <<"a", " ", "=", " ", "t", "r", "u", "e", "\n">>,
      <<"a", " ", "=", " ", "t", "r", "u", "e">>,
      <<"a", " ", "=", " ", "f", "a", "l", "s", "e", " ", "#", "a">>,
      <<"a", " ", "=", " ", "\"", "a", "\\", "n", "\"", "\n">>,
      <<"a", " ", "=", " ", "\"", "a">>,
      <<"a", " ", "=", " ", "-", "1", ".", "5", "\n">>,
      <<"a", " ", "=", " ", "1", "2", "\n", "[", "a", ".", "a", "]", "\n">>,
      <<"a", " ", "=", " ", "1", "9", "7", "9", "-", "0", "5", "-", "2", "7",
        "T", "0", "7", ":", "3", "2", ":", "0", "0", "Z", "\n">>,
      <<"a", " ", "=", " ", "[", "1", ",", " ", "2", "]", "\n">>,
      <<"a", " ", "=", " ", "[", "[", "]", ",", "\n", "#", "a", "\n", "]", "\n">>,
      <<"a", " ", "=", " ", "[", "#", "a", "\n", "1", "#", "a", "\n", ",", "]">>,
      <<"[", "a", "]", "\n", "[", "a", "]", "\n", "[", "a", "]", "\n",
        "[", "a", "]", "\n">> }

Inputs == SeqsUpTo(Alphabet, MaxInputLen) \cup Samples

\* The parse loop has stopped pulling.
Stopped == received # <<>> /\ Last(received).typ \in {"EOF", "Error"}

\* Every item sent so far, in the order of sending.
Emitted == received \o lx.items

\* nextItem, case item := <-lx.items.
Receive ==
    /\ ~Stopped
    /\ ~Dead(lx)
    /\ lx.items # <<>>
    /\ received' = Append(received, Head(lx.items))
    /\ lx' = [lx EXCEPT !.items = Tail(@)]
    /\ UNCHANGED <<p, result, doc, hist, trip, floats, call>>

\* The default case of nextItem's select taken although an item is waiting
\* in the channel.
Unreceived(state) ==
    /\ ~Stopped
    /\ ~Dead(lx)
    /\ lx.state = state

\* nextItem, default: lx.state = lx.state(lx).  The state function named
\* is the one called when the channel is empty,
Callable(state) ==
    /\ ~Stopped
    /\ ~Dead(lx)
    /\ lx.items = <<>>
    /\ lx.state = state

\* and the lexer it leaves becomes the lexer.
Called(q) ==
    /\ lx' = q
    /\ UNCHANGED <<received, p, result, doc, hist, trip, floats, call>>

LexTop ==
    /\ Callable("lexTop")
    /\ Called(lexTop(lx))

LexKey ==
    /\ Callable("lexKey")
    /\ Called(lexKey(lx))

LexKeySep ==
    /\ Callable("lexKeySep")
    /\ Called(lexKeySep(lx))

LexValueStart ==
    /\ Callable("lexValueStart")
    /\ Called(lexValueStart(lx))

LexValue ==
    /\ Callable("lexValue")
    /\ Called(lexValue(lx))

LexArrayStart ==
    /\ Callable("lexArrayStart")
    /\ Called(lexArrayStart(lx))

LexArrayEnd ==
    /\ Callable("lexArrayEnd")
    /\ Called(lexArrayEnd(lx))

LexNegative ==
    /\ Callable("lexNegative")
    /\ Called(lexNegative(lx))

LexNumber ==
    /\ Callable("lexNumber")
    /\ Called(lexNumber(lx))

LexZuluDatetimeAfterYear ==
    /\ Callable("lexZuluDatetimeAfterYear")
    /\ Called(lexZuluDatetimeAfterYear(lx))

LexFloatFirstAfterDot ==
    /\ Callable("lexFloatFirstAfterDot")
    /\ Called(lexFloatFirstAfterDot(lx))

LexFloat ==
    /\ Callable("lexFloat")
    /\ Called(lexFloat(lx))

LexString ==
    /\ Callable("lexString")
    /\ Called(lexString(lx))

LexStringEsc ==
    /\ Callable("lexStringEsc")
    /\ Called(lexStringEsc(lx))

LexTr ==
    /\ Callable("lexTr")
    /\ Called(lexTr(lx))

LexTru ==
    /\ Callable("lexTru")
    /\ Called(lexTru(lx))

LexTrue ==
    /\ Callable("lexTrue")
    /\ Called(lexTrue(lx))

LexFa ==
    /\ Callable("lexFa")
    /\ Called(lexFa(lx))

LexFal ==
    /\ Callable("lexFal")
    /\ Called(lexFal(lx))

LexFals ==
    /\ Callable("lexFals")
    /\ Called(lexFals(lx))

LexFalse ==
    /\ Callable("lexFalse")
    /\ Called(lexFalse(lx))

LexKeyGroupTextStart ==
    /\ Callable("lexKeyGroupTextStart")
    /\ Called(lexKeyGroupTextStart(lx))

LexValTerm ==
    /\ Callable("lexValTerm")
    /\ Called(lexValTerm(lx))

LexCommentOrVal ==
    /\ Callable("lexCommentOrVal")
    /\ Called(lexCommentOrVal(lx))

LexTermThenVal ==
    /\ Callable("lexTermThenVal")
    /\ Called(lexTermThenVal(lx))

LexValOrArrayEnd ==
    /\ Callable("lexValOrArrayEnd")
    /\ Called(lexValOrArrayEnd(lx))

\* The call of the nil stateFn, which panics.
NilState ==
    /\ Callable("nil")
    /\ Called(Die(lx, "nil state"))

InitLex ==
    /\ \E input \in Inputs : lx = lex(input)
    /\ received = <<>>
    /\ p = NewParser
    /\ result = "parsing"
    /\ doc = <<>>
    /\ hist = NoHist
    /\ trip = NoTrip
    /\ floats = NoFloats
    /\ call = NoCall

NextLex ==
    \/ Receive
    \/ LexTop
    \/ LexKey
    \/ LexKeySep
    \/ LexValueStart
    \/ LexValue
    \/ LexArrayStart
    \/ LexArrayEnd
    \/ LexNegative
    \/ LexNumber
    \/ LexZuluDatetimeAfterYear
    \/ LexFloatFirstAfterDot
    \/ LexFloat
    \/ LexString
    \/ LexStringEsc
    \/ LexTr
    \/ LexTru
    \/ LexTrue
    \/ LexFa
    \/ LexFal
    \/ LexFals
    \/ LexFalse
    \/ LexKeyGroupTextStart
    \/ LexValTerm
    \/ LexCommentOrVal
    \/ LexTermThenVal
    \/ LexValOrArrayEnd
    \/ NilState

SpecLex == InitLex /\ [][NextLex]_vars

----------------------------------------------------------------------------
(* parse, from the bytes of the document to the lexer.  A byte is written  *)
(* by its value where the value matters ("0xFF", "0xFE", "0xEF", "0xBB",   *)
(* "0xBF", "0x00") and is an ASCII character otherwise.  The lexer reads    *)
(* runes: next decodes them from the bytes as it goes, Runes decodes them  *)
(* all.                                                                    *)

MaxBodyLen == 5

UTF16LE == <<"0xFF", "0xFE">>

UTF16BE == <<"0xFE", "0xFF">>

UTF8BOM == <<"0xEF", "0xBB", "0xBF">>

BOMs == {UTF16LE, UTF16BE, UTF8BOM}

NullError == "files cannot contain NULL bytes; probably using UTF-16; TOML files must be UTF-8"

\* strings.HasPrefix(data, prefix)
HasPrefix(data, prefix) ==
    Len(data) >= Len(prefix) /\ SubSeq(data, 1, Len(prefix)) = prefix

\* utf8.DecodeRuneInString over the whole input (lexer.next): the three
\* bytes EF BB BF are the rune U+FEFF, a byte that starts no rune is
\* utf8.RuneError, and the byte 0 is the rune 0, which is eof.
RECURSIVE Runes(_)
Runes(data) ==
    IF data = <<>> THEN <<>>
    ELSE IF HasPrefix(data, UTF8BOM)
         THEN <<"U+FEFF">> \o Runes(SubSeq(data, 4, Len(data)))
    ELSE IF Head(data) \in {"0xFF", "0xFE", "0xEF", "0xBB", "0xBF"}
         THEN <<"U+FFFD">> \o Runes(Tail(data))
    ELSE IF Head(data) = "0x00" THEN <<eof>> \o Runes(Tail(data))
    ELSE <<Head(data)>> \o Runes(Tail(data))

\* Read over BOM
stripBOM(data) ==
    IF HasPrefix(data, UTF16LE) \/ HasPrefix(data, UTF16BE)
    THEN SubSeq(data, 3, Len(data))
    ELSE data

\* The mutant of examined that looks at two bytes.
examinedTwo(data) == SubSeq(data, 1, IF Len(data) < 2 THEN Len(data) ELSE 2)

\* data[:ex], the first few bytes examined for NULL bytes
examined(data) == SubSeq(data, 1, IF Len(data) < 6 THEN Len(data) ELSE 6)

\* strings.ContainsRune(data[:ex], 0)
hasNull(data) == \E i \in DOMAIN examined(data) : examined(data)[i] = "0x00"

\* No lexer yet: parse has not called lex.
NoLexer == [lex(<<>>) EXCEPT !.state = "none"]

\* The documents: the samples, with and without a byte order mark, and the
\* strings of letters and NULL bytes after every start.
Bodies == SeqsUpTo({"a", "0x00"}, MaxBodyLen)

\* Documents with a NULL byte after the bytes parse examines.
NullSamples ==
    { <<"a", " ", "=", " ", "1", "\n", "0x00", "a", " ", "=", " ", "2", "\n">>,
      <<"a", " ", "=", " ", "1", "\n", "0x00">> }

ByteInputs ==
    {bom \o body : bom \in BOMs \cup {<<>>, <<"a", "a">>},
                   body \in Samples \cup Bodies \cup NullSamples}

\* parse, up to the loop over the items
ParseBytes ==
    /\ call.fn = "parse"
    /\ ~call.done
    /\ IF hasNull(stripBOM(call.args))
       THEN /\ call' = [call EXCEPT !.ret = NullError, !.done = TRUE]
            /\ lx' = lx
       ELSE /\ call' = [call EXCEPT !.ret = "", !.done = TRUE]
            /\ lx' = lex(Runes(stripBOM(call.args)))
    /\ UNCHANGED <<p, result, doc, hist, received, trip, floats>>

InitBytes ==
    /\ \E data \in ByteInputs : call = [NoCall EXCEPT !.fn = "parse", !.args = data]
    /\ lx = NoLexer
    /\ received = <<>>
    /\ p = NewParser
    /\ result = "parsing"
    /\ doc = <<>>
    /\ hist = NoHist
    /\ trip = NoTrip
    /\ floats = NoFloats

NextBytes ==
    \/ ParseBytes
    \/ NextLex

SpecBytes == InitBytes /\ [][NextBytes]_vars

----------------------------------------------------------------------------
(* parser.value of an itemInteger: the text of the item is a sequence of   *)
(* characters, and the integer it stands for is computed as                *)
(* strconv.ParseInt(s, 0, 64) computes it (base 0: a leading 0 is the      *)
(* octal prefix, underscores are allowed between digits).  The texts are   *)
(* too short to leave the range of 64 bits.                                *)

MaxLiteralLen == 4

LiteralChars == {"0", "1", "8", "_", "+", "-"}

isDigit(r) == r \in Digits

isHexadecimal(r) == r \in Digits \cup {"a", "b", "c", "d", "e", "f", "A", "B", "C", "D", "E", "F"}

DigitValue(r) == CHOOSE n \in 0..9 : ToString(n) = r

\* numHasLeadingZero checks if this number has leading zeroes, allowing for
\* '0', +/- signs, and base prefixes.
numHasLeadingZero(s) ==
    \/ Len(s) > 1 /\ s[1] = "0" /\ isDigit(s[2])
    \/ Len(s) > 2 /\ s[1] \in {"-", "+"} /\ s[2] = "0"

\* The loop of numUnderscoresOK from the i-th character on.
RECURSIVE underscoresLoop(_, _, _)
underscoresLoop(s, i, accepted) ==
    IF i > Len(s) THEN accepted
    ELSE IF s[i] = "_" /\ ~accepted THEN FALSE
    ELSE underscoresLoop(s, i + 1, isHexadecimal(s[i]))

numUnderscoresOK(s) == underscoresLoop(s, 1, FALSE)

\* strconv's underscoreOK, after the sign, for a text without b, o or x:
\* saw is "0" after a digit, "_" after an underscore, "^" at the start.
RECURSIVE underscoreOK(_, _, _)
underscoreOK(s, i, saw) ==
    IF i > Len(s) THEN saw # "_"
    ELSE IF isDigit(s[i]) THEN underscoreOK(s, i + 1, "0")
    ELSE IF s[i] = "_" THEN saw = "0" /\ underscoreOK(s, i + 1, "_")
    ELSE saw # "_" /\ underscoreOK(s, i + 1, "!")

\* The loop of strconv.ParseUint over the digits: the value, or -1 for a
\* syntax error.
RECURSIVE parseDigits(_, _, _, _)
parseDigits(s, i, base, n) ==
    IF i > Len(s) THEN n
    ELSE IF s[i] = "_" THEN parseDigits(s, i + 1, base, n)
    ELSE IF ~isDigit(s[i]) THEN -1
    ELSE IF DigitValue(s[i]) >= base THEN -1
    ELSE parseDigits(s, i + 1, base, n * base + DigitValue(s[i]))

\* strconv.ParseUint(s, 0, 64)
ParseUint(s) ==
    IF s = <<>> THEN [err |-> "syntax", n |-> 0]
    ELSE IF parseDigits(s, IF s[1] = "0" THEN 2 ELSE 1, IF s[1] = "0" THEN 8 ELSE 10, 0) = -1
              \/ (Contains(s, "_") /\ ~underscoreOK(s, 1, "^"))
         THEN [err |-> "syntax", n |-> 0]
    ELSE [err |-> "",
          n |-> parseDigits(s, IF s[1] = "0" THEN 2 ELSE 1, IF s[1] = "0" THEN 8 ELSE 10, 0)]

\* strconv.ParseInt(s, 0, 64)
ParseInt(s) ==
    IF s = <<>> THEN [err |-> "syntax", n |-> 0]
    ELSE IF s[1] = "+" THEN ParseUint(Tail(s))
    ELSE IF s[1] = "-" THEN [ParseUint(Tail(s)) EXCEPT !.n = 0 - @]
    ELSE ParseUint(s)

\* value, case itemInteger: how it ends ("ok", "error" for a panicf, "bug"
\* for p.bug) and the integer returned.
valueInteger(val) ==
    IF ~numUnderscoresOK(val) THEN [end |-> "error", num |-> 0]
    ELSE IF numHasLeadingZero(val) THEN [end |-> "error", num |-> 0]
    ELSE IF ParseInt(val).err # "" THEN [end |-> "bug", num |-> 0]
    ELSE [end |-> "ok", num |-> ParseInt(val).n]

\* The texts of integer items: a sign or none, a digit, then digits and
\* underscores.
IsLiteral(s) ==
    /\ s # <<>>
    /\ \/ isDigit(s[1]) /\ \A i \in 2..Len(s) : s[i] \notin {"+", "-"}
       \/ /\ Len(s) > 1
          /\ s[1] \in {"+", "-"}
          /\ isDigit(s[2])
          /\ \A i \in 3..Len(s) : s[i] \notin {"+", "-"}

Literals == {s \in SeqsUpTo(LiteralChars, MaxLiteralLen) : IsLiteral(s)}

InitInteger ==
    /\ Idle
    /\ \E val \in Literals : call = [NoCall EXCEPT !.fn = "value", !.args = val]

ValueInteger ==
    /\ call.fn = "value"
    /\ Apply(valueInteger(call.args))

SpecInteger == InitInteger /\ [][ValueInteger]_vars

----------------------------------------------------------------------------
(* parser.value of an itemMultilineString: the text between the quotes is  *)
(* a sequence of characters, "a" for every character that is no backslash, *)
(* no newline and no blank, and " " for the blanks.  The action stops at   *)
(* `trimmed`: replaceEscapes, which follows, removes no newline.           *)

MaxTextLen == 5

TextChars == {"a", "\\", "\n", " "}

\* strings.Split(s, "\n"), with the line in hand
RECURSIVE splitLines(_, _, _)
splitLines(s, i, line) ==
    IF i > Len(s) THEN <<line>>
    ELSE IF s[i] = "\n" THEN <<line>> \o splitLines(s, i + 1, <<>>)
    ELSE splitLines(s, i + 1, Append(line, s[i]))

\* strings.Join(split, "")
RECURSIVE joinLines(_)
joinLines(split) == IF split = <<>> THEN <<>> ELSE Head(split) \o joinLines(Tail(split))

RECURSIVE TrimRight(_)
TrimRight(line) ==
    IF line # <<>> /\ Last(line) = " " THEN TrimRight(Front(line)) ELSE line

RECURSIVE TrimLeft(_)
TrimLeft(line) ==
    IF line # <<>> /\ Head(line) = " " THEN TrimLeft(Tail(line)) ELSE line

\* escBS after the loop over the backslashes that end the line: TRUE when
\* their number is even.
RECURSIVE escBS(_)
escBS(line) ==
    IF line = <<>> \/ Last(line) # "\\" THEN TRUE ELSE ~escBS(Front(line))

\* split[i] = line[:len(line)-1]; split[i+1] = strings.TrimLeft(split[i+1], " \t\r")
removeBackslash(split, i, line) ==
    [j \in DOMAIN split |->
        IF j = i THEN Front(line)
        ELSE IF j = i + 1 THEN TrimLeft(split[j])
        ELSE split[j]]

\* What an iteration of the loop of stripEscapedNewlines makes of split,
\* for line = strings.TrimRight(split[i], " \t\r").
stripLine(split, i, escNL, line) ==
    IF line = <<>> \/ Last(line) # "\\"
    THEN IF ~escNL /\ i # Len(split) THEN [split EXCEPT ![i] = Append(@, "\n")] ELSE split
    ELSE IF escBS(line) THEN [split EXCEPT ![i] = Append(@, "\n")]
    ELSE removeBackslash(split, i, IF escNL THEN TrimLeft(line) ELSE line)

\* escNL after the iteration.
escNLAfter(escNL, line) ==
    IF line = <<>> \/ Last(line) # "\\" THEN escNL ELSE ~escBS(line)

\* The loop of stripEscapedNewlines from the i-th line on.
RECURSIVE stripLoop(_, _, _)
stripLoop(split, i, escNL) ==
    IF i > Len(split) THEN joinLines(split)
    ELSE stripLoop(stripLine(split, i, escNL, TrimRight(split[i])), i + 1,
                   escNLAfter(escNL, TrimRight(split[i])))

\* Remove newlines inside triple-quoted strings if a line ends with "\".
stripEscapedNewlines(s) == stripLoop(splitLines(s, 1, <<>>), 1, FALSE)

stripFirstNewline(s) == IF s # <<>> /\ s[1] = "\n" THEN Tail(s) ELSE s

\* value, case itemMultilineString: trimmed
valueMultiline(val) == stripFirstNewline(stripEscapedNewlines(val))

InitMultiline ==
    /\ Idle
    /\ \E val \in SeqsUpTo(TextChars, MaxTextLen) :
          call = [NoCall EXCEPT !.fn = "valueMultiline", !.args = val]

ValueMultiline ==
    /\ call.fn = "valueMultiline"
    /\ Apply(valueMultiline(call.args))

SpecMultiline == InitMultiline /\ [][ValueMultiline]_vars

----------------------------------------------------------------------------
(* Two calls of parse running at once (TestDecodeParallel), each on its    *)
(* own document.  A step is one iteration of the loop of parse in one of   *)
(* the calls: the next item of its document goes to topLevel of its        *)
(* parser.  ret.ps are the parsers `p = &parser{...}` of the two calls,    *)
(* ret.at the number of items each has consumed, and ret.switches counts   *)
(* how often the step passed from one call to the other.                   *)

MaxParallelLen == 2

ParallelItems ==
    {Item(kind, key, Scalar) : kind \in {"table", "arraytable", "key"},
                               key \in {<<"a">>, <<"a", "b">>}}

\* p.topLevel(item)
topLevelItem(q, it, line) ==
    CASE it.kind = "table" -> topLevelTable(q, it.key, line)
      [] it.kind = "arraytable" -> topLevelArrayTable(q, it.key, line)
      [] OTHER -> topLevelKey(q, it.key, it.val, line)

\* The loop of parse over the items of d from the i-th on, run alone.
RECURSIVE parseItems(_, _, _)
parseItems(q, d, i) ==
    IF i > Len(d) \/ Panicked(q) THEN q
    ELSE parseItems(topLevelItem(q, d[i], i), d, i + 1)

\* The mutant of ownParser where the calls share the parser of the first.
sharedParser(ps, i) == ps[1]

\* The parser of the i-th call: each call allocates its own.
ownParser(ps, i) == ps[i]

InitParallel ==
    /\ Idle
    /\ \E d1 \in SeqsUpTo(ParallelItems, MaxParallelLen),
          d2 \in SeqsUpTo(ParallelItems, MaxParallelLen) :
          call = [fn |-> "parse", args |-> <<d1, d2>>, done |-> FALSE,
                  ret |-> [ps |-> <<NewParser, NewParser>>, at |-> <<0, 0>>,
                           last |-> 0, switches |-> 0]]

\* One iteration of the loop of parse in the i-th call.
ParseStep(i) ==
    /\ call.fn = "parse"
    /\ call.ret.at[i] < Len(call.args[i])
    /\ ~Panicked(call.ret.ps[i])
    /\ call' = [call EXCEPT
          !.ret.ps[i] = topLevelItem(ownParser(call.ret.ps, i),
                                     call.args[i][call.ret.at[i] + 1],
                                     call.ret.at[i] + 1),
          !.ret.at[i] = @ + 1,
          !.ret.last = i,
          !.ret.switches = IF call.ret.last \notin {0, i} THEN @ + 1 ELSE @]
    /\ UNCHANGED <<p, result, doc, hist, lx, received, trip, floats>>

ParseFirst == ParseStep(1)

ParseSecond == ParseStep(2)

NextParallel ==
    \/ ParseFirst
    \/ ParseSecond

SpecParallel == InitParallel /\ [][NextParallel]_vars

----------------------------------------------------------------------------
(* unify: Decode's walk over the client's value.  A target is its
   reflect.Kind, the number of methods of an interface type, and the element
   (or field) type of a struct, map or slice; a datum is the Go type the
   parser produced, with one element in a map or slice. *)

MaxMethods == 1

LeafKinds ==
    {"String", "Float64", "Int", "Bool", "Interface", "Time", "Int32", "Chan"}
PackKinds == {"Struct", "Map", "Slice"}

Target(kind, methods, elemKind, elemMethods) ==
    [kind |-> kind, methods |-> methods,
     elemKind |-> elemKind, elemMethods |-> elemMethods]
ElemOf(rv) == Target(rv.elemKind, rv.elemMethods, "", 0)

Targets ==
    {Target(k, IF k = "Interface" THEN m ELSE 0, "", 0) :
         k \in LeafKinds, m \in 0..MaxMethods}
    \cup {Target(k, 0, ek, IF ek = "Interface" THEN m ELSE 0) :
         k \in PackKinds, ek \in LeafKinds, m \in 0..MaxMethods}

\* implements: the datum's type has the methods of the target interface,
\* which of the parser's types only time.Time can.
Datum(type, elemType, implements) ==
    [type |-> type, elemType |-> elemType, implements |-> implements]
ElemOfData(data) == Datum(data.elemType, "", data.implements)
LeafTypes == {"string", "int64", "float64", "bool", "time.Time"}
Data ==
    {Datum(t, "", i) : t \in LeafTypes, i \in BOOLEAN}
    \cup {Datum(t, et, i) : t \in {"map", "slice"}, et \in LeafTypes, i \in BOOLEAN}
WellFormed(data) ==
    data.implements => "time.Time" \in {data.type, data.elemType}

\* What a call of unify has done: the error it returned, whether it
\* panicked, the targets it was called on and the targets it assigned to.
Unified(err, panic, reached, assigned) ==
    [err |-> err, panic |-> panic, reached |-> reached, assigned |-> assigned]
Unsupported == <<"Unsupported type">>
badtype(expected) == <<"Expected", expected>>

unifyLeaf(data, rv, type, expected) ==
    IF data.type = type
    THEN Unified(<<>>, FALSE, {rv}, {rv})
    ELSE Unified(badtype(expected), FALSE, {rv}, {})

\* rv.Set(reflect.ValueOf(data)) panics when the datum's type is not
\* assignable to the interface type.
unifyAnything(data, rv) ==
    IF rv.methods = 0 \/ data.implements
    THEN Unified(<<>>, FALSE, {rv}, {rv})
    ELSE Unified(<<>>, TRUE, {rv}, {})

RECURSIVE unify(_, _)
unifyStruct(mapping, rv) ==
    IF mapping.type # "map"
    THEN Unified(badtype("map"), FALSE, {rv}, {})
    ELSE LET r == unify(ElemOfData(mapping), ElemOf(rv))
         IN  Unified(IF r.err = <<>> THEN <<>> ELSE <<"Type mismatch for">> \o r.err,
                     r.panic, {rv} \cup r.reached, r.assigned)

unifyPack(data, rv, type) ==
    IF data.type # type
    THEN Unified(badtype(type), FALSE, {rv}, {})
    ELSE LET r == unify(ElemOfData(data), ElemOf(rv))
         IN  Unified(r.err, r.panic, {rv} \cup r.reached, {rv} \cup r.assigned)

unifyMap(mapping, rv) == unifyPack(mapping, rv, "map")
unifySlice(data, rv) == unifyPack(data, rv, "slice")

unify(data, rv) ==
    CASE rv.kind = "Time" -> unifyLeaf(data, rv, "time.Time", "time.Time")
      [] rv.kind = "Struct" -> unifyStruct(data, rv)
      [] rv.kind = "Map" -> unifyMap(data, rv)
      [] rv.kind = "Slice" -> unifySlice(data, rv)
      [] rv.kind = "String" -> unifyLeaf(data, rv, "string", "string")
      [] rv.kind = "Float64" -> unifyLeaf(data, rv, "float64", "float")
      [] rv.kind = "Int" -> unifyLeaf(data, rv, "int64", "integer")
      [] rv.kind = "Bool" -> unifyLeaf(data, rv, "bool", "integer")
      [] rv.kind = "Interface" -> unifyAnything(data, rv)
      [] OTHER -> Unified(Unsupported, FALSE, {rv}, {})

InitUnify ==
    /\ Idle
    /\ \E data \in Data, rv \in Targets :
           /\ WellFormed(data)
           /\ call = [NoCall EXCEPT !.fn = "unify", !.args = <<data, rv>>]

Unify ==
    /\ call.fn = "unify"
    /\ Apply(unify(call.args[1], call.args[2]))

NextUnify == Unify
SpecUnify == InitUnify /\ [][NextUnify]_vars

----------------------------------------------------------------------------
(* Runner.Run of the test runner: the loop over RunTests in the calling
   goroutine, and one goroutine per test that is not skipped.  limit is the
   number of values in the channel of capacity Parallel, wg the WaitGroup's
   counter, mu the holder of the mutex (0: free, -1: the loop, i: the
   goroutine of entry i).  A counter of Tests is incremented in two steps,
   the read and the write, both under the mutex.  contended records that
   a goroutine took the mutex while another was waiting for it. *)

MaxTests == 3
MaxParallel == 2

RunTestsOf == SeqsUpTo([invalid : BOOLEAN, skip : BOOLEAN], MaxTests)

parallelOf(n) == IF n = 0 THEN 1 ELSE n

NoCounts ==
    [Skipped |-> 0, PassedValid |-> 0, FailedValid |-> 0,
     PassedInvalid |-> 0, FailedInvalid |-> 0]

Runner(tests, parallel) ==
    [RunTests |-> tests, Parallel |-> parallelOf(parallel),
     pc |-> "loop", at |-> 0, limit |-> 0, wg |-> 0, mu |-> 0,
     g |-> [i \in 1..Len(tests) |-> "idle"],
     failed |-> [i \in 1..Len(tests) |-> FALSE],
     read |-> [i \in 1..Len(tests) |-> 0],
     Tests |-> <<>>, counts |-> NoCounts, contended |-> FALSE]

noLimit(r) == TRUE
noWait(r) == TRUE

\* limit <- struct{}{} goes through when the channel has room
limitHasRoom(r) == r.limit < r.Parallel
\* wg.Wait() goes through when the counter is zero
waitOver(r) == r.wg = 0
\* mu.Lock() goes through when nobody holds the mutex
muFree(r) == r.mu = 0

counterOf(r, i) ==
    IF r.failed[i]
    THEN IF r.RunTests[i].invalid THEN "FailedInvalid" ELSE "FailedValid"
    ELSE IF r.RunTests[i].invalid THEN "PassedInvalid" ELSE "PassedValid"

\* sort.Slice: the valid tests before the invalid ones, each in path order
RECURSIVE insertTest(_, _)
testLess(a, b) ==
    \/ ~a.invalid /\ b.invalid
    \/ a.invalid = b.invalid /\ a.Path < b.Path
insertTest(ts, t) ==
    IF ts = <<>> THEN <<t>>
    ELSE IF testLess(t, Head(ts)) THEN <<t>> \o ts
    ELSE <<Head(ts)>> \o insertTest(Tail(ts), t)
RECURSIVE sortTests(_)
sortTests(ts) ==
    IF ts = <<>> THEN <<>> ELSE insertTest(sortTests(Tail(ts)), Head(ts))

TestOf(r, i, skipped) ==
    [Path |-> i, invalid |-> r.RunTests[i].invalid,
     Skipped |-> skipped, Failed |-> r.failed[i]]

Step(r) ==
    /\ call.fn = "Run"
    /\ call' = [call EXCEPT !.ret = r]
    /\ UNCHANGED <<p, result, doc, hist, lx, received, trip, floats>>

Looping(r) == r.pc = "loop" /\ r.at < Len(r.RunTests)

\* the skipped entry: tests.Skipped++, then the record under the mutex
RunSkip ==
    LET r == call.ret IN
    /\ Looping(r)
    /\ r.RunTests[r.at + 1].skip
    /\ Step([r EXCEPT !.counts.Skipped = @ + 1, !.pc = "skipped"])

RunSkipRecord ==
    LET r == call.ret IN
    /\ r.pc = "skipped"
    /\ muFree(r)
    /\ Step([r EXCEPT !.Tests = Append(@, TestOf(r, r.at + 1, TRUE)),
                      !.at = @ + 1, !.pc = "loop"])

\* limit <- struct{}{}; wg.Add(1); go func(p)
RunStart ==
    LET r == call.ret IN
    /\ Looping(r)
    /\ ~r.RunTests[r.at + 1].skip
    /\ limitHasRoom(r)
    /\ Step([r EXCEPT !.limit = @ + 1, !.wg = @ + 1,
                      !.g[r.at + 1] = "run", !.at = @ + 1])

\* t = t.Run(r.Parser, r.Files)
TestRun(i) ==
    LET r == call.ret IN
    /\ i \in DOMAIN r.g
    /\ r.g[i] = "run"
    /\ \E f \in BOOLEAN : Step([r EXCEPT !.g[i] = "lock", !.failed[i] = f])

\* mu.Lock(); the append; the read of the counter
TestRecord(i) ==
    LET r == call.ret IN
    /\ i \in DOMAIN r.g
    /\ r.g[i] = "lock"
    /\ muFree(r)
    /\ Step([r EXCEPT !.mu = i, !.g[i] = "count",
                      !.Tests = Append(@, TestOf(r, i, FALSE)),
                      !.read[i] = r.counts[counterOf(r, i)],
                      !.contended = @ \/ \E j \in DOMAIN r.g : j # i /\ r.g[j] = "lock"])

\* the write of the counter; mu.Unlock()
TestCount(i) ==
    LET r == call.ret IN
    /\ i \in DOMAIN r.g
    /\ r.g[i] = "count"
    /\ Step([r EXCEPT !.mu = 0, !.g[i] = "unlocked",
                      !.counts[counterOf(r, i)] = r.read[i] + 1])

\* the deferred <-limit; wg.Done()
TestDone(i) ==
    LET r == call.ret IN
    /\ i \in DOMAIN r.g
    /\ r.g[i] = "unlocked"
    /\ Step([r EXCEPT !.limit = @ - 1, !.wg = @ - 1, !.g[i] = "done"])

\* wg.Wait(); sort.Slice; return
RunReturn ==
    LET r == call.ret IN
    /\ r.pc = "loop"
    /\ r.at = Len(r.RunTests)
    /\ waitOver(r)
    /\ call.fn = "Run"
    /\ call' = [call EXCEPT !.done = TRUE,
                            !.ret = [r EXCEPT !.pc = "returned",
                                              !.Tests = sortTests(@)]]
    /\ UNCHANGED <<p, result, doc, hist, lx, received, trip, floats>>

InitRunner ==
    /\ Idle
    /\ \E tests \in RunTestsOf, n \in 0..MaxParallel :
           call = [NoCall EXCEPT !.fn = "Run", !.args = <<tests, n>>,
                                 !.ret = Runner(tests, n)]

NextRunner ==
    \/ RunSkip
    \/ RunSkipRecord
    \/ RunStart
    \/ \E i \in 1..MaxTests : TestRun(i)
    \/ \E i \in 1..MaxTests : TestRecord(i)
    \/ \E i \in 1..MaxTests : TestCount(i)
    \/ \E i \in 1..MaxTests : TestDone(i)
    \/ RunReturn

SpecRunner == InitRunner /\ [][NextRunner]_vars

----------------------------------------------------------------------------
(* The parser's claims.  Each is a property of one step of parse: of the   *)
(* item just consumed (Last(doc')), the parser before it (p, hist) and     *)
(* after it (p', result').                                                 *)

Stepped == doc' # doc

It == Last(doc')

Accepted == result' = "parsing"

Rejected == result' = "error"

DuplicateKey == Rejected /\ p'.err.msg = "has already been defined"

HasDuplicate(s) == \E i, j \in DOMAIN s : i < j /\ s[i] = s[j]

IsPrefix(s, t) == Len(s) <= Len(t) /\ SubSeq(t, 1, Len(s)) = s

\* The header the item being consumed stands under: the last header of doc.
HeaderIndex == CHOOSE i \in DOMAIN doc :
                  /\ doc[i].kind # "key"
                  /\ \A j \in DOMAIN doc : j > i => doc[j].kind = "key"

UnderArrayHeader ==
    /\ \E i \in DOMAIN doc : doc[i].kind # "key"
    /\ doc[HeaderIndex].kind = "arraytable"

\* C1: a `key = value` or a [header] that names a position of the tree
\* which an earlier item of the document has already defined (the same key
\* in the same table instance) is rejected with the duplicate-key error.
C1_DuplicateDefinitionRejected ==
    [][(Stepped /\ It.kind # "arraytable" /\ hist'.target \in hist.concrete)
          => DuplicateKey]_vars

\* C2: a [K] header that names a table which so far exists only implicitly
\* (as the parent of a child header or as the prefix of a dotted key) is
\* accepted, and a [K] header that names a table which an earlier [K] has
\* already upgraded is rejected with the duplicate-key error.
C2_ImplicitUpgradedOnce ==
    [][(Stepped /\ It.kind = "table") =>
          LET t == TargetPos(p.mapping, It.key)
          IN  /\ OnlyImplicit(p.mapping, hist, t) => Accepted
              /\ t \in hist.upgraded => DuplicateKey]_vars

\* C3: a [K] header fails with "Key K has already been defined" whenever K
\* was defined before as a value or as an explicit table, and does not fail
\* when K exists only as an implicit table.
C3_HeaderAlreadyDefined ==
    [][(Stepped /\ It.kind = "table") =>
          LET t == TargetPos(p.mapping, It.key)
          IN  /\ t \in hist.concrete => (DuplicateKey /\ p'.err.key = It.key)
              /\ OnlyImplicit(p.mapping, hist, t) => ~Rejected]_vars

\* C4: an accepted [[K]] header lengthens the array at K by exactly one
\* table, which is empty and is the table of the new context, and changes
\* nothing else that was in the tree; an accepted `key = value` under a
\* [[K]] header is stored in the newest element of the array at K and
\* changes nothing that was in the tree.
C4_ArrayTableAppends ==
    [][Stepped =>
          /\ (It.kind = "arraytable" /\ Accepted) =>
                LET t == hist'.target
                    n == IF t \in DOMAIN p.mapping THEN p.mapping[t].len ELSE 0
                    e == Append(t, IdxSeg(n + 1))
                IN  /\ p'.mapping[t] = ArrNode(n + 1)
                    /\ e \in DOMAIN p'.mapping
                    /\ p'.mapping[e] = HashNode
                    /\ \A q \in DOMAIN p'.mapping : IsPrefix(e, q) => q = e
                    /\ \A q \in DOMAIN p.mapping \ {t} : p'.mapping[q] = p.mapping[q]
                    /\ contextWalk(p'.mapping, <<>>, p'.context)
                          = [ok |-> TRUE, hashPath |-> e]
          /\ (It.kind = "key" /\ Accepted /\ UnderArrayHeader) =>
                LET e == contextWalk(p.mapping, <<>>, doc[HeaderIndex].key).hashPath
                    pos == e \o It.key
                IN  /\ pos \in DOMAIN p'.mapping
                    /\ p'.mapping[pos] = IF It.val.kind = "inline" THEN HashNode
                                         ELSE ValNode(<<Len(doc'), 0>>)
                    /\ \A q \in DOMAIN p.mapping : p'.mapping[q] = p.mapping[q]]_vars


\* C5: a header whose key names an inline table, or a path below one, is
\* rejected.
C5_InlineTableClosed ==
    [][(Stepped /\ It.kind \in {"table", "arraytable"}
          /\ Visited(p.mapping, <<>>, It.key) \cap hist.inlines # {})
          => Rejected]_vars

\* C6: a [header] that names a table which a dotted key brought into
\* existence as one of its prefixes is rejected.
C6_DottedPrefixClosed ==
    [][(Stepped /\ It.kind = "table" /\ TargetPos(p.mapping, It.key) \in hist.dotted)
          => Rejected]_vars

\* C7: an inline table that contains the same key twice makes the parse
\* fail.
C7_InlineDuplicateFails ==
    [][(Stepped /\ It.val.kind = "inline" /\ HasDuplicate(It.val.ents))
          => Rejected]_vars

\* C11: parse never lets a fault of the input escape as a panic: no
\* document makes the parser call p.bug, whose panic the deferred recover
\* of parse panics again.
C11_NoPanicEscapes == result # "crash"


KeysInTextOrder ==
    IF It.kind # "key" THEN <<It.key>>
    ELSE <<p.context \o It.key>> \o
         [j \in 1..Len(It.val.ents) |-> p.context \o It.key \o <<It.val.ents[j]>>]

\* C13: every accepted item adds its keys to the ordered key list in the
\* order in which they appear in the text; in particular the key of an
\* inline table comes before the keys inside the inline table.
C13_OrderedIsTextOrder ==
    [][(Stepped /\ Accepted) => p'.ordered = p.ordered \o KeysInTextOrder]_vars

\* The positions of the tree the step has created or changed.
Changed ==
    {q \in DOMAIN p'.mapping : q \notin DOMAIN p.mapping \/ p'.mapping[q] # p.mapping[q]}

\* Position q of tree m lies in an element of an array of tables that is
\* not the last element of its array.
InEarlierElement(m, q) ==
    \E k \in 1..Len(q) :
        /\ SubSeq(q, 1, k - 1) \in DOMAIN m
        /\ m[SubSeq(q, 1, k - 1)].kind = "arr"
        /\ q[k] # IdxSeg(m[SubSeq(q, 1, k - 1)].len)

\* C14: an accepted header creates and changes tables only in the most
\* recently appended element of every array of tables its path passes
\* through, and the walk down the context it establishes goes through those
\* elements only.
C14_HeaderAttachesToLastElement ==
    [][(Stepped /\ It.kind \in {"table", "arraytable"} /\ Accepted) =>
          /\ \A q \in Changed : ~InEarlierElement(p'.mapping, q)
          /\ ~InEarlierElement(p'.mapping,
                               contextWalk(p'.mapping, <<>>, p'.context).hashPath)]_vars

\* A header has gone through an array of two tables into its second one.
C14_ThroughSecondElement ==
    /\ result = "parsing"
    /\ doc # <<>>
    /\ Last(doc).kind \in {"table", "arraytable"}
    /\ Len(hist.target) >= 3
    /\ hist.target[2] = IdxSeg(2)

\* C16: a [K] header that is accepted for a table K that no item has defined
\* itself leaves the whole tree as it was, so everything under K is still
\* there with the same value.
C16_UpgradeLeavesTree ==
    [][(Stepped /\ It.kind = "table" /\ Accepted
          /\ OnlyImplicit(p.mapping, hist, TargetPos(p.mapping, It.key))) =>
          p'.mapping = p.mapping]_vars

\* A header has upgraded an implicit table that has something under it.
C16_UpgradedWithChildren ==
    /\ result = "parsing"
    /\ doc # <<>>
    /\ Last(doc).kind = "table"
    /\ hist.target \in hist.upgraded
    /\ \E q \in DOMAIN p.mapping : Len(q) > Len(hist.target) /\ IsPrefix(hist.target, q)
    /\ \A i \in 1..(Len(doc) - 1) : doc[i].key # Last(doc).key
----------------------------------------------------------------------------
(* The lexer's claims.                                                     *)

Count(s, typ) == Cardinality({i \in DOMAIN s : s[i].typ = typ})

\* Nothing was sent after the item of type typ.
NothingAfter(s, typ) == \A i \in DOMAIN s : s[i].typ = typ => i = Len(s)

\* The lexer has come to its last state, nil, without an Error.
LexedWithoutError ==
    /\ ~Dead(lx)
    /\ lx.state = "nil"
    /\ Count(Emitted, "Error") = 0

\* The state function nextItem is about to call returns the lexer as it
\* is, with nothing sent: nextItem's loop repeats the call for ever.
Spinning ==
    /\ ~Stopped
    /\ ~Dead(lx)
    /\ lx.items = <<>>
    /\ StateFn(lx) = lx

\* C8: for an input that lexes without error the lexer sends exactly one
\* EOF item, as its last item, and at no time is anything sent after an
\* EOF item.
C8_ExactlyOneEOFLast ==
    /\ Count(Emitted, "EOF") <= 1
    /\ NothingAfter(Emitted, "EOF")
    /\ LexedWithoutError => Count(Emitted, "EOF") = 1

\* C9: for every input, pulling items terminates by delivering an EOF or
\* an Error item: no state function recurses without end, nextItem never
\* repeats a call that changes nothing, and the goroutine never dies (nil
\* state called, send blocked for ever) before that item is delivered.
C9_PullTerminates == ~Dead(lx) /\ ~Spinning

\* C10: the lexer sends at most one Error item, sends nothing after it,
\* and is in its last state, nil, once it has sent it.
C10_ErrorIsLast ==
    /\ Count(Emitted, "Error") <= 1
    /\ NothingAfter(Emitted, "Error")
    /\ (Count(Emitted, "Error") = 1 /\ ~Dead(lx)) => lx.state = "nil"

\* C15: backup is never called twice without a call of next in between, and
\* the read position is never before the position the last call of next
\* started from.
C15_BackupOncePerNext ==
    /\ ~lx.strayed
    /\ lx.backups <= 1
    /\ lx.pos >= lx.floor

\* lexArrayEnd has stepped back over the ']' and read it again, and a later
\* state function has stepped back over the rune it read.
C15_BackedUpAfterArrayEnd ==
    /\ ~Dead(lx)
    /\ \E i \in 1..Len(Emitted) : Emitted[i].typ = "ArrayEnd"
    /\ lx.backups = 1
    /\ lx.width = 1
    /\ lx.pos = lx.floor

----------------------------------------------------------------------------
(* The encoder's claims.                                                   *)

\* The tree as a TOML value: an array whose elements are all tables is an
\* array of tables, whichever Go type holds it.
AllTables(node) ==
    /\ node.kind = "list"
    /\ node.v[2] # <<>>
    /\ \A j \in DOMAIN node.v[2] : node.v[2][j] = "table"

Canon(m) ==
    [q \in DOMAIN m \cup
           UNION {{Append(r, IdxSeg(j)) : j \in 1..Len(m[r].v[2])} :
                    r \in {r \in DOMAIN m : AllTables(m[r])}} |->
        IF q \notin DOMAIN m THEN HashNode
        ELSE IF AllTables(m[q]) THEN ArrNode(Len(m[q].v[2]))
        ELSE m[q]]

\* Tree w, decoded from the lines out, is tree v: the same positions hold
\* the same kind of node, and a value of w was read from the line on which
\* the value of v at that position was written.
SameTree(v, w, out) ==
    /\ DOMAIN v = DOMAIN w
    /\ \A q \in DOMAIN v :
          /\ v[q].kind = w[q].kind
          /\ v[q].len = w[q].len
          /\ v[q].kind \in {"val", "list"} =>
                /\ out[w[q].v[1]].val.kind = v[q].kind
                /\ out[w[q].v[1]].val = v[q]
                /\ out[w[q].v[1]].pos = q

EncodeSucceeds == trip.stage # "none" => trip.enc.panic = ""

DecodeSucceeds == trip.stage \in {"decoded", "again"} => ~Panicked(trip.back)

\* C17: encoding the tree of a successful parse succeeds, parsing the text
\* encoded succeeds, and the tree parsed is the tree encoded.
C17_RoundTrip ==
    /\ EncodeSucceeds
    /\ DecodeSucceeds
    /\ trip.stage \in {"decoded", "again"} =>
          SameTree(Canon(p.mapping), Canon(trip.back.mapping), trip.enc.out)

\* The text of a line: what is written, with the value as the node whose
\* literal it is.  A value decoded from the lines src has the literal of the
\* line it was read from.
LineText(line) ==
    [kind |-> line.kind, indent |-> line.indent, key |-> line.key,
     val |-> <<line.val.kind, line.val.v>>]

TextOf(out) == [i \in DOMAIN out |-> LineText(out[i])]

TextFrom(out, src) ==
    [i \in DOMAIN out |->
        IF out[i].kind = "key"
        THEN LineText([out[i] EXCEPT !.val = src[out[i].val.v[1]].val])
        ELSE LineText(out[i])]

\* C18: the text of an encoding that succeeded is decoded without error, and
\* the encoding of the value decoded succeeds and is that text, line for
\* line.
C18_EncodeIdempotent ==
    /\ DecodeSucceeds
    /\ trip.stage = "again" =>
          /\ trip.again.panic = ""
          /\ TextFrom(trip.again.out, trip.enc.out) = TextOf(trip.enc.out)

\* A value with a nested array of tables and a key under it has been
\* encoded, decoded and encoded again.
C18_EncodedAgain ==
    /\ trip.stage = "again"
    /\ trip.again.panic = ""
    /\ \E i, j \in DOMAIN trip.again.out :
          /\ i < j
          /\ trip.again.out[i].kind = "arraytable"
          /\ trip.again.out[i].indent >= 1
          /\ trip.again.out[j].kind = "key"

C19_SignBitKept ==
    \A i \in DOMAIN floats.text :
        floats.text[i] \in {<<"-">> \o Nan, <<"-", "0", ".", "0">>} =>
            /\ floats.stage \in {"parsed", "encoded", "back"} =>
                  Signbit(floats.parsed[i])
            /\ floats.stage \in {"encoded", "back"} =>
                  Head(floats.encoded[i]) = "-"
            /\ floats.stage = "back" =>
                  Signbit(floats.back[i]) = Signbit(floats.parsed[i])

\* The j-th chunk the encoder e sent to its writer is the header of a
\* top-level table or of an element of a top-level array of tables.
TopHeaderAt(e, j) ==
    /\ e.w[j].t = "line"
    /\ e.out[e.w[j].n].kind \in {"table", "arraytable"}
    /\ Len(e.out[e.w[j].n].key) = 1

\* In what e sent to its writer, a top-level header is the first thing
\* written or follows exactly two newlines.
OneBlankLineAbove(e) ==
    \A j \in DOMAIN e.w :
        TopHeaderAt(e, j) =>
            \/ j = 1
            \/ /\ j >= 4
               /\ e.w[j - 1].t = "nl"
               /\ e.w[j - 2].t = "nl"
               /\ e.w[j - 3].t # "nl"

DocOnOwnLine(e, j) ==
    /\ j < Len(e.w)
    /\ e.w[j + 1].t = "nl"
    /\ \/ j = 1
       \/ /\ j >= 4
          /\ e.w[j - 1].t = "nl"
          /\ e.w[j - 2].t = "nl"

\* The j-th chunk, a Doc comment, is directly above the line of `key`.
DocAboveKey(e, j, key) ==
    /\ j + 2 <= Len(e.w)
    /\ e.w[j + 2].t = "line"
    /\ e.out[e.w[j + 2].n].key = key

\* C22: a Doc comment the MetaData carries for a key is written on a line
\* of its own directly above that key's line, with a blank line between it
\* and what was written before.
C22_DocCommentOnOwnLine ==
    (trip.stage = "meta" /\ trip.enc.panic = "") =>
        \A j \in DOMAIN trip.enc.w :
            trip.enc.w[j].t = "doc" =>
                /\ DocOnOwnLine(trip.enc, j)
                /\ DocAboveKey(trip.enc, j, trip.enc.out[trip.enc.w[j].n + 1].key)

\* The string has been encoded with the type `typ`.
EncodedAs(typ) == call.fn = "eElement" /\ call.done /\ call.args[2] = typ

\* C23: encoding a string with the literal single-line type fails when the
\* string holds a single quote or a newline.
C23_LiteralRejectsQuote ==
    (/\ EncodedAs([Literal |-> TRUE, Multiline |-> FALSE])
     /\ Contains(call.args[1], "'") \/ Contains(call.args[1], "\n"))
        => call.ret.panic # ""

\* A character in front of the value of the rest; no value stays no value.
Cons(c, rest) == [rest EXCEPT !.s = <<c>> \o @]

\* The string a basic single-line string body stands for; ok is FALSE when
\* the body is not one: a raw newline, a bare quotation mark or a backslash
\* that starts no escape.
RECURSIVE BasicValue(_)
BasicValue(body) ==
    IF body = <<>> THEN [ok |-> TRUE, s |-> <<>>]
    ELSE IF Head(body) \in {"\n", "\""} THEN [ok |-> FALSE, s |-> <<>>]
    ELSE IF Head(body) # "\\" THEN Cons(Head(body), BasicValue(Tail(body)))
    ELSE IF Len(body) < 2 \/ body[2] \notin {"\\", "\"", "n"}
         THEN [ok |-> FALSE, s |-> <<>>]
    ELSE Cons(IF body[2] = "n" THEN "\n" ELSE body[2],
              BasicValue(SubSeq(body, 3, Len(body))))

\* What was written opens a multiline basic string.
IsMultilineBasic(text) ==
    Len(text) >= 6 /\ SubSeq(text, 1, 3) = <<"\"", "\"", "\"">>

\* What was written is the basic single-line string of s.
IsBasicOf(text, s) ==
    /\ Len(text) >= 2
    /\ text[1] = "\""
    /\ text[Len(text)] = "\""
    /\ BasicValue(SubSeq(text, 2, Len(text) - 1)) = [ok |-> TRUE, s |-> s]

\* C24: a string encoded without a type is written as a basic single-line
\* string, a newline in it as the escape \n; it is never written as a
\* multiline string.
C24_NoTypeBasicSingleLine ==
    EncodedAs(Nil) =>
        /\ call.ret.panic = ""
        /\ Len(call.ret.out) = 1
        /\ IsBasicOf(call.ret.out[1], call.args[1])

\* A string holding a newline, a quotation mark and a backslash has been
\* encoded without a type.
C24_NewlineEncoded ==
    /\ EncodedAs(Nil)
    /\ Contains(call.args[1], "\n")
    /\ Contains(call.args[1], "\"")
    /\ Contains(call.args[1], "\\")

\* C24 as stated: without a type, a string holding a newline is written as
\* a multiline basic string.
C24_NewlineMultiline ==
    (EncodedAs(Nil) /\ Contains(call.args[1], "\n")) =>
        IsMultilineBasic(call.ret.out[1])

\* Between the braces, pairs and commas alternate, from a pair to a pair.
CommasBetweenPairs(out) ==
    /\ \A i \in 1..(Len(out) - 1) :
          /\ out[i].kind = "pair" => out[i + 1].kind \in {", ", "}"}
          /\ out[i].kind = ", " => out[i + 1].kind = "pair"
          /\ out[i].kind = "{" => out[i + 1].kind \in {"pair", "}"}

\* C25: in an inline table every two consecutive pairs written have exactly
\* one comma between them and no comma follows the last pair, whatever the
\* mix of plain and table-valued entries and whichever entries are skipped.
C25_CommasBetweenPairs ==
    (call.fn \in {"eMap", "eStruct"} /\ call.done) => CommasBetweenPairs(call.ret.out)

\* Encode has ended on a failure: a panic of the encoder or the error of
\* its writer.
EncodeFailed ==
    /\ call.fn = "Encode"
    /\ call.done
    /\ call.ret.enc.panic # "" \/ call.ret.enc.room = 0

\* C26: when encoding fails, by the encoder or by its writer, Encode
\* returns the first error as it is.
C26_FirstErrorReturned ==
    EncodeFailed =>
        /\ call.ret.err # "crash"
        /\ call.ret.err = IF call.ret.enc.panic # "" THEN call.ret.enc.panic
                          ELSE "error: " \o "writer"

\* parse has been given a document that opens with the byte order mark bom.
ParsedWith(bom) == call.fn = "parse" /\ call.done /\ HasPrefix(call.args, bom)

\* The document after its first n bytes.
After(data, n) == SubSeq(data, n + 1, Len(data))

\* C27: a byte order mark of UTF-8, UTF-16-LE or UTF-16-BE that opens the
\* document is removed before lexing: the lexer is given the document
\* that follows the mark.
C27_BOMStripped ==
    \A bom \in BOMs :
        (ParsedWith(bom) /\ call.ret = "") =>
            lx.input = Runes(After(call.args, Len(bom)))

\* The document has a NULL byte within its first six bytes.
NullInFirstSix(data) == \E i \in 1..6 : i <= Len(data) /\ data[i] = "0x00"

\* C28: a document with a NULL byte within its first six bytes is refused
\* with the error for NULL bytes, with a UTF-16 byte order mark in front or
\* without.
C28_NullByteRejected ==
    (call.fn = "parse" /\ call.done /\ NullInFirstSix(call.args)) =>
        call.ret = NullError

\* A document whose first NULL byte is its sixth byte, after a UTF-16 byte
\* order mark, has been refused.
C28_NullAfterBOM ==
    /\ ParsedWith(UTF16BE)
    /\ Len(call.args) >= 6
    /\ call.args[6] = "0x00"
    /\ ~Contains(SubSeq(call.args, 1, 5), "0x00")
    /\ call.ret = NullError

\* The text without its sign.
Unsigned(s) == IF s # <<>> /\ s[1] \in {"+", "-"} THEN Tail(s) ELSE s

\* C29: a decimal integer that starts with the digit 0, after its sign if
\* it has one, and is not 0 itself is refused with a parse error.
C29_LeadingZeroRejected ==
    (/\ call.fn = "value"
     /\ call.done
     /\ Unsigned(call.args)[1] = "0"
     /\ Unsigned(call.args) # <<"0">>)
        => call.ret.end = "error"

\* The number of backslashes of s from the i-th character on.
RECURSIVE Backslashes(_, _)
Backslashes(s, i) ==
    IF i > Len(s) \/ s[i] # "\\" THEN 0 ELSE 1 + Backslashes(s, i + 1)

\* The first place from i on that holds neither a blank nor a newline.
RECURSIVE NextNonBlank(_, _)
NextNonBlank(s, i) ==
    IF i > Len(s) \/ s[i] \notin {" ", "\n"} THEN i ELSE NextNonBlank(s, i + 1)

\* k backslashes
Slashes(k) == [j \in 1..k |-> "\\"]

\* The text with its line continuations taken out, from the i-th character
\* on: an odd number of backslashes before a newline loses its last one,
\* the newline and the blanks and newlines that follow; all else is kept.
RECURSIVE Continued(_, _)
Continued(s, i) ==
    IF i > Len(s) THEN <<>>
    ELSE IF s[i] # "\\" THEN <<s[i]>> \o Continued(s, i + 1)
    ELSE IF /\ i + Backslashes(s, i) <= Len(s)
            /\ s[i + Backslashes(s, i)] = "\n"
            /\ Backslashes(s, i) % 2 = 1
         THEN Slashes(Backslashes(s, i) - 1)
                  \o Continued(s, NextNonBlank(s, i + Backslashes(s, i)))
    ELSE Slashes(Backslashes(s, i)) \o Continued(s, i + Backslashes(s, i))

\* A backslash of the text is followed by a backslash, by a newline or by
\* a character to escape: not by a blank, and not by the end of the text.
EscapesComplete(s) ==
    \A i \in DOMAIN s : s[i] = "\\" => (i < Len(s) /\ s[i + 1] # " ")

\* C30: in a multiline basic string a line that ends in an odd number of
\* backslashes loses the last of them, the newline and the blanks and
\* newlines up to the next character, and every other newline is kept.
C30_LineContinuation ==
    (call.fn = "valueMultiline" /\ call.done /\ EscapesComplete(call.args))
        => call.ret = stripFirstNewline(Continued(call.args, 1))

\* The i-th call has returned: its document is consumed or it has panicked.
Returned(i) ==
    call.ret.at[i] = Len(call.args[i]) \/ Panicked(call.ret.ps[i])

C32_ContextRestored ==
    [][(/\ Stepped
        /\ It.kind = "key"
        /\ Len(It.key) > 1
        /\ Accepted) => p'.context = p.context]_vars

\* C33: the lexer sends the EOF item only when it has read the input to
\* its end: a NULL byte in the document is no end of input, and no text
\* after it is left unread.
C33_EOFOnlyAtEnd ==
    (call.fn = "parse" /\ \E i \in DOMAIN Emitted : Emitted[i].typ = "EOF")
        => lx.pos >= Len(lx.input)

\* C34: a call of unify that comes to a target of a kind it does not
\* handle, an interface type with methods among them, returns the
\* "Unsupported type" error, does not panic, and assigns to no such target.
Handled(rv) ==
    \/ rv.kind \in PackKinds \cup {"String", "Float64", "Int", "Bool", "Time"}
    \/ rv.kind = "Interface" /\ rv.methods = 0

C34_UnsupportedReported ==
    (call.fn = "unify" /\ call.done /\ \E rv \in call.ret.reached : ~Handled(rv))
        => /\ ~call.ret.panic
           /\ Contains(call.ret.err, "Unsupported type")
           /\ \A rv \in call.ret.assigned : Handled(rv)

\* C37: at no time during Runner.Run are more tests inside Test.Run than
\* Parallel, or than one when Parallel is unset.
Executing == {i \in DOMAIN call.ret.g : call.ret.g[i] = "run"}

C37_AtMostParallel ==
    call.fn = "Run" =>
        Cardinality(Executing) <= (IF call.args[2] = 0 THEN 1 ELSE call.args[2])

\* witness: as many tests as Parallel allows are inside Test.Run, and a
\* further one is waiting for room
C37_LimitReached ==
    /\ call.fn = "Run"
    /\ call.args[2] = 2
    /\ Cardinality(Executing) = 2
    /\ call.ret.at < Len(call.ret.RunTests)
    /\ ~call.ret.RunTests[call.ret.at + 1].skip

\* C38: Runner.Run returns only when every test it started has finished;
\* then every entry of RunTests has exactly one record in Tests, and every
\* counter is the number of the entries that fall under it.
RecordsOf(i) ==
    {k \in DOMAIN call.ret.Tests : call.ret.Tests[k].Path = i}
EntriesWith(skip, invalid, failed) ==
    {i \in DOMAIN call.ret.RunTests :
        /\ call.ret.RunTests[i].skip = skip
        /\ skip \/ (call.ret.RunTests[i].invalid = invalid /\ call.ret.failed[i] = failed)}

C38_AllRecordedOnce ==
    (call.fn = "Run" /\ call.done) =>
        LET r == call.ret IN
        /\ \A i \in DOMAIN r.g : r.g[i] = (IF r.RunTests[i].skip THEN "idle" ELSE "done")
        /\ \A i \in DOMAIN r.RunTests : Cardinality(RecordsOf(i)) = 1
        /\ Len(r.Tests) = Len(r.RunTests)
        /\ r.counts.Skipped = Cardinality(EntriesWith(TRUE, FALSE, FALSE))
        /\ r.counts.PassedValid = Cardinality(EntriesWith(FALSE, FALSE, FALSE))
        /\ r.counts.FailedValid = Cardinality(EntriesWith(FALSE, FALSE, TRUE))
        /\ r.counts.PassedInvalid = Cardinality(EntriesWith(FALSE, TRUE, FALSE))
        /\ r.counts.FailedInvalid = Cardinality(EntriesWith(FALSE, TRUE, TRUE))

\* witness: Run has returned after two tests counted under the same counter
\* were at the mutex together, and one entry was skipped
C38_ReturnedAfterOverlap ==
    /\ call.fn = "Run"
    /\ call.done
    /\ call.ret.contended
    /\ call.args[2] = 2
    /\ call.ret.counts.PassedValid = 2
    /\ call.ret.counts.Skipped = 1

\* C35: Encode never panics: with every value and every type hint, one of
\* a kind other than the value's among them, the encoding of the value ends
\* in a return, with nil or an error, and not in a panic that safeEncode
\* passes on.
C35_NeverPanics ==
    (call.fn = "eElement" /\ call.done) => ~IsRawPanic(call.ret)

\* C36: the calls of one state function never send more items than the
\* channel of the lexer holds: no send finds the channel full, so that
\* emit never blocks the goroutine that is also the receiver.
C36_EmitNeverBlocks ==
    /\ lx.fault # "deadlock"
    /\ Len(lx.items) <= ItemsCap

\* witness: one call of a state function has sent six items, an Error
\* item and the header's and the comment's
C36_SixInOneStep ==
    /\ Len(lx.items) = 6
    /\ lx.items[1].typ = "Error"
    /\ lx.items[6].typ = "EOF"

\* C39: after a successful parse the keys of the ordered list and the keys
\* of the types map are the same keys.
OrderedKeys == {KeyString(p.ordered[i]) : i \in DOMAIN p.ordered}

RECURSIVE TrailingNewlines(_)
TrailingNewlines(w) ==
    IF w = <<>> THEN 0
    ELSE IF Last(w).t = "nl" THEN 1 + TrailingNewlines(Front(w))
    ELSE 0

C40_CountersMatchOutput ==
    (trip.stage = "meta" /\ trip.enc.panic = "") =>
        /\ trip.enc.hasWritten = (trip.enc.w # <<>>)
        /\ trip.enc.wroteNL = TrailingNewlines(trip.enc.w)

====
